---- MODULE Spec2Model ----
(***************************************************************************)
(* A model of the multi-source Steam charts fetcher                        *)
(* (src/unnamed/part_000, class SteamDataFetcher).                         *)
(*                                                                         *)
(* One run of fetchAllSteamData is followed in two legs:                   *)
(*   - the merge leg (phases 1-3): the three source adapters complete in   *)
(*     any order, their lists are merged by priority and down-sampled;     *)
(*   - the fetch leg (phases 4-5): fetchPlayerCountsParallel with the      *)
(*     retry loop of makeRequest at the granularity of the event loop      *)
(*     (one action per remote response, per timer and per continuation     *)
(*     of an await), then the aggregation, validation and ranking.         *)
(* The fetch leg starts from every list gamesToProcess of candidates with  *)
(* distinct ids that the merge leg can hand over, within the bounds.       *)
(* SpecMain adds main and saveData around the fetch leg; SpecWindows runs  *)
(* the fetch leg with other window sizes and checkpoint intervals.         *)
(*                                                                         *)
(* SpecSync is the player-count sync (src/unnamed/part_001, class          *)
(* SteamChartsSync): fetchGamesFromDatabase and the chunked lookups of     *)
(* fetchPlayerStatsForBatch with the session cache.                        *)
(*                                                                         *)
(* SpecSpy is the SteamSpy fetcher (page loop, tag phase, result and       *)
(* summary of .github/scripts/fetch-steamspy-data.js); SpecCharts is the   *)
(* batch loop of .github/scripts/fetch-steam-charts.js.                    *)
(***************************************************************************)
EXTENDS Integers, Sequences, FiniteSets, TLC

VARIABLES
    pc,               \* position of fetchAllSteamData / fetchPlayerCountsParallel
    chartsRaw,        \* what GetMostPlayedGames answers in this run
    spyRaw,           \* what the SteamSpy requests answer, one per request
    appsRaw,          \* what GetAppList answers
    adapterOut,       \* the lists the adapters returned (slots of Promise.all)
    arrival,          \* the adapters in the order they completed
    allUniqueGames,   \* values of allGamesMap in insertion order (line 322)
    gamesToProcess,   \* candidates handed to phase 4
    lookups,          \* one entry per element of `promises` (line 206)
    batchI,           \* loop variable i of the batch loop (line 217)
    results,          \* results accumulated by the batch loop (line 216)
    failedRequests,   \* this.failedRequests
    snapshots,        \* partial snapshots written by saveIntermediateResults
    gamesWithPlayers, \* phase 5 list (sorted and ranked on success)
    totalPlayers,     \* this.totalPlayers
    result,           \* metadata of the returned dataset
    error,            \* message data of the error thrown by the validation
    windowSize,       \* the window size the batch loop runs with (line 16)
    checkpointEvery,  \* the checkpoint interval it runs with (line 20)
    mainPc,           \* position of main (lines 446-493)
    outputFiles,      \* the output documents saveData has written
    exitStatus,       \* argument of process.exit, NotExited before
    syncPc,           \* position of SteamChartsSync (part_001)
    popularQuery,     \* what the popular-games query answers
    additionalQuery,  \* what the additional-games query answers
    dbGames,          \* the list fetchGamesFromDatabase returned
    playerCache,      \* this.playerCache
    stats,            \* this.stats (apiCalls, errors, cachedGames)
    calls,            \* the calls of fetchSingleGamePlayerCount, one per game
    chunkI,           \* loop variable i of fetchPlayerStatsForBatch
    statsMap,         \* the Map fetchPlayerStatsForBatch returns
    spyFetcher,       \* the SteamSpyFetcher object (fetch-steamspy-data.js)
    spyLoop,          \* position and locals of its fetchAllGames and main
    spyOutput,        \* the result it returned and the summary it wrote
    chartsFetcher,    \* the SteamDataFetcher object of fetch-steam-charts.js
    chartsBatches     \* position, batches and tasks of its processGamesInBatches

mergeVars == <<chartsRaw, spyRaw, appsRaw, adapterOut, arrival, allUniqueGames>>

configVars == <<windowSize, checkpointEvery>>
mainVars == <<mainPc, outputFiles, exitStatus>>
syncVars == <<syncPc, popularQuery, additionalQuery, dbGames, playerCache, stats, calls,
              chunkI, statsMap>>

\* what fetchAllSteamData and the functions it calls never touch
scriptVars == <<spyFetcher, spyLoop, spyOutput, chartsFetcher, chartsBatches>>
outerVars == <<configVars, mainVars, syncVars, scriptVars>>

vars == <<pc, chartsRaw, spyRaw, appsRaw, adapterOut, arrival, allUniqueGames,
          gamesToProcess, lookups, batchI, results, failedRequests,
          snapshots, gamesWithPlayers, totalPlayers, result, error,
          windowSize, checkpointEvery, mainPc, outputFiles, exitStatus,
          syncPc, popularQuery, additionalQuery, dbGames, playerCache, stats, calls,
          chunkI, statsMap, spyFetcher, spyLoop, spyOutput, chartsFetcher,
          chartsBatches>>

(***************************************************************************)
(* Configuration (lines 14-20).  The limits are scaled down so that the    *)
(* windows, the checkpoint interval and the thresholds are all crossed     *)
(* with a handful of identifiers; MAX_RETRIES keeps its value.             *)
(***************************************************************************)
MIN_GAMES_REQUIRED == 2
TARGET_GAMES == 2
MAX_CONCURRENT_REQUESTS == 2
MAX_RETRIES == 5
INTERMEDIATE_SAVE_INTERVAL == 2
DELAY_UNIT == 100

\* Largest number of identifiers handed to fetchPlayerCountsParallel.
MaxIds == 3

\* Largest number of identifiers of a run followed through main.
MaxMainIds == 2

(***************************************************************************)
(* JavaScript values.  Undef stands for undefined in a numeric field, ""   *)
(* for an undefined or empty string; both are falsy, and so is 0.          *)
(***************************************************************************)
Undef == -1
NoName == ""
Truthy(n) == n # Undef /\ n # 0
OrZero(n) == IF Truthy(n) THEN n ELSE 0
Max(a, b) == IF a >= b THEN a ELSE b
Min(a, b) == IF a <= b THEN a ELSE b

(***************************************************************************)
(* Values a lookup's promise can carry: not settled yet, null (makeRequest *)
(* gave up), or the JSON body of GetNumberOfCurrentPlayers.                *)
(***************************************************************************)
Pending == [kind |-> "pending", result |-> 0, player_count |-> 0]
Null == [kind |-> "null", result |-> 0, player_count |-> 0]
Json(r, c) == [kind |-> "json", result |-> r, player_count |-> c]

\* Bodies the remote service can answer with: a count, and a body whose
\* result field is not 1 (no usable payload).
RemotePayloads == {Json(1, 7), Json(42, 7)}

\* PlayersOf without the test of the result field
PlayersOfUnchecked(data) ==
    IF data.kind = "json" THEN OrZero(data.player_count) ELSE 0

\* line 210: data?.response?.result === 1 ? (data.response.player_count || 0) : 0
PlayersOf(data) ==
    IF data.kind = "json" /\ data.result = 1 THEN OrZero(data.player_count) ELSE 0

\* BackoffDelay counting the attempts from one
BackoffDelayFromOne(i) == IF i > 0 THEN DELAY_UNIT * (i + 1) ELSE 0

\* line 58: if (i > 0) await this.sleep(100 * i)
BackoffDelay(i) == IF i > 0 THEN DELAY_UNIT * i ELSE 0

\* line 53: i === retries - 1, with retries = MAX_RETRIES (line 38)
IsFinalAttempt(i) == i = MAX_RETRIES - 1

(***************************************************************************)
(* Candidates as phase 4 receives them.  A Steam-Charts candidate has a    *)
(* static metric and a peak hint and no name; an all-apps candidate has a  *)
(* name and a static metric of 0 (lines 121-126, 293, 311-317).            *)
(***************************************************************************)
Candidate(id, nm, cur, peak, own, prio, src) ==
    [appId |-> id, name |-> nm, currentPlayers |-> cur, peak24h |-> peak,
     owners |-> own, priority |-> prio, source |-> src]

\* lines 124-125: the concurrent and peak_in_game values Steam Charts reports
\* for an id, as <<currentPlayers, peak24h>>
ChartsFigures(id) ==
    IF id % 3 = 0 THEN <<19, 20>> ELSE IF id % 3 = 1 THEN <<4, 5>> ELSE <<4, 9>>

CandidateKinds(id) ==
    { Candidate(id, NoName, ChartsFigures(id)[1], ChartsFigures(id)[2], Undef, 1,
                "steam-charts"),
      Candidate(id, "App", 0, Undef, Undef, 3, "steam-all-apps") }

\* The lists phase 3 can hand over: distinct ids, and the priorities never
\* decrease along the list (the merge inserts the sources in priority order,
\* line 341 puts the sample behind the priority 1 and 2 candidates).
HandedOver ==
    UNION { { s \in [1..n -> UNION {CandidateKinds(10 + k) : k \in 1..n}] :
                /\ \A k \in 1..n : s[k].appId = 10 + k
                /\ \A k \in 1..(n - 1) : s[k].priority <= s[k + 1].priority }
            : n \in 0..MaxIds }

(***************************************************************************)
(* Phase 1: the remote contents and the three source adapters.             *)
(* A response is null (makeRequest gave up) or a JSON body with its items. *)
(* The adapters' lists are written in the record shape of a candidate; a   *)
(* field an adapter does not set is Undef / NoName, priority 0.            *)
(***************************************************************************)
NullResp == [ok |-> FALSE, items |-> <<>>, broken |-> FALSE]
Resp(items) == [ok |-> TRUE, items |-> items, broken |-> FALSE]

\* A 2xx JSON body whose list holds a null among its entries: reading a
\* property of the null entry throws a TypeError inside the adapter's try block.
Malformed(items) == [ok |-> TRUE, items |-> items, broken |-> TRUE]

\* An exception that left an adapter, in the place of its list
Rejected == <<[appId |-> Undef, name |-> "TypeError", currentPlayers |-> Undef,
               peak24h |-> Undef, owners |-> Undef, priority |-> 0, source |-> "thrown"]>>

Sources == {"apps", "charts", "spy"}
NoOutput == [s \in Sources |-> <<>>]

\* lines 140-147: the four SteamSpy requests
SPY_REQUESTS == 4

ChartsEntry(id, concurrent, peak) ==
    [appid |-> id, concurrent |-> concurrent, peak_in_game |-> peak]
SpyEntry(key, nm, own) == [key |-> key, name |-> nm, owners |-> own]
AppEntry(id, nm) == [appid |-> id, name |-> nm]

\* Bodies of GetMostPlayedGames: ids 1 and 2, id 1 also a second time
RemoteCharts ==
    { NullResp,
      Resp(<<>>),
      Resp(<<ChartsEntry(1, 5, 9)>>),
      Resp(<<ChartsEntry(1, 5, 9), ChartsEntry(2, Undef, Undef)>>),
      Resp(<<ChartsEntry(1, 5, 9), ChartsEntry(2, Undef, Undef), ChartsEntry(1, 0, 3)>>) }

\* Bodies of one SteamSpy request: id 1 without and with a name and with
\* different owners, id 3, and a key that parses to 0
RemoteSpy ==
    { NullResp,
      Resp(<<SpyEntry(1, NoName, 7)>>),
      Resp(<<SpyEntry(1, "One", 8), SpyEntry(3, "Three", Undef)>>),
      Resp(<<SpyEntry(0, "Zero", 1), SpyEntry(3, "Three", 2)>>) }

\* Bodies of GetAppList: ids 1, 4 (twice), 5 (a DLC), 6, 7 (no name)
RemoteApps ==
    { NullResp,
      Resp(<<AppEntry(4, "Four")>>),
      Resp(<<AppEntry(1, "One"), AppEntry(4, "Four"), AppEntry(5, "Five DLC"),
             AppEntry(6, "Six")>>),
      Resp(<<AppEntry(4, "Four"), AppEntry(7, NoName), AppEntry(6, "Six"),
             AppEntry(4, "Four II")>>),
      Resp(<<AppEntry(6, "Six"), AppEntry(4, "Four"), AppEntry(1, "One")>>) }

\* lines 89-100: the name filter of fetchAllSteamApps, on the names above
IsGameName(nm) == nm # NoName /\ nm \notin {"Five DLC"}

\* lines 121-126
ChartsGame(g) ==
    Candidate(g.appid, NoName, OrZero(g.concurrent), OrZero(g.peak_in_game), Undef, 0, "")

\* fetchMostPlayedGames without its catch block
fetchMostPlayedGamesUncaught(data) ==
    IF data.ok
    THEN IF data.broken THEN Rejected
         ELSE [k \in 1..Len(data.items) |-> ChartsGame(data.items[k])]
    ELSE <<>>

\* lines 113-132; an exception of the map of line 121 is caught at line 128
fetchMostPlayedGames(data) ==
    IF data.ok
    THEN IF data.broken THEN <<>>
         ELSE [k \in 1..Len(data.items) |-> ChartsGame(data.items[k])]
    ELSE <<>>

\* lines 156-163; parseInt of the key is the key's number
SpyGame(e) ==
    Candidate(e.key, IF e.name # NoName THEN e.name ELSE "Game " \o ToString(e.key),
              0, Undef, OrZero(e.owners), 0, "steamspy")

\* line 164
SpyKeep(g) == Truthy(g.appId) /\ g.name # NoName

\* lines 152-167: the games of one response
SpyGamesOf(data) ==
    IF data.ok /\ ~data.broken
    THEN SelectSeq([k \in 1..Len(data.items) |-> SpyGame(data.items[k])], SpyKeep)
    ELSE <<>>

\* lines 149-171: allGames
RECURSIVE AllSpyGames(_)
AllSpyGames(responses) ==
    IF responses = <<>> THEN <<>>
    ELSE SpyGamesOf(Head(responses)) \o AllSpyGames(Tail(responses))

\* lines 173-181: the first game of every appId
RECURSIVE UniqueGames(_, _)
UniqueGames(allGames, seenIds) ==
    IF allGames = <<>> THEN <<>>
    ELSE IF Head(allGames).appId \in seenIds
         THEN UniqueGames(Tail(allGames), seenIds)
         ELSE <<Head(allGames)>> \o
              UniqueGames(Tail(allGames), seenIds \cup {Head(allGames).appId})

\* lines 135-185
fetchSteamSpyGames(responses) == UniqueGames(AllSpyGames(responses), {})

\* lines 85-104; an app {appid, name} in the candidate shape
AppGame(a) == Candidate(a.appid, a.name, Undef, Undef, Undef, 0, "")
AppKeep(g) == IsGameName(g.name)

\* lines 78-110
fetchAllSteamApps(data) ==
    IF data.ok /\ ~data.broken
    THEN SelectSeq([k \in 1..Len(data.items) |-> AppGame(data.items[k])], AppKeep)
    ELSE <<>>

\* failed attempts counted by makeRequest (line 52) for a request that ends null
FailedAttempts(data) == IF data.ok THEN 0 ELSE MAX_RETRIES

RECURSIVE SumFailedAttempts(_)
SumFailedAttempts(responses) ==
    IF responses = <<>> THEN 0
    ELSE FailedAttempts(Head(responses)) + SumFailedAttempts(Tail(responses))

(***************************************************************************)
(* Phase 2: the merge (lines 289-322).  allGamesMap is a Map: it is kept   *)
(* as the sequence of its values in insertion order.                       *)
(***************************************************************************)
Has(map, id) == \E k \in 1..Len(map) : map[k].appId = id
IndexOf(map, id) == CHOOSE k \in 1..Len(map) : map[k].appId = id
Get(map, id) == map[IndexOf(map, id)]

\* Map.prototype.set with every call adding an entry
MapSetAppend(map, rec) == Append(map, rec)

\* Map.prototype.set: an existing key keeps its place and gets the new value
MapSet(map, rec) ==
    IF Has(map, rec.appId) THEN [map EXCEPT ![IndexOf(map, rec.appId)] = rec]
    ELSE Append(map, rec)

\* lines 292-294
ChartsStep(map, game) ==
    MapSet(map, [game EXCEPT !.priority = 1, !.source = "steam-charts"])

\* lines 297-305
SpyStep(map, game) ==
    IF Has(map, game.appId)
    THEN [map EXCEPT ![IndexOf(map, game.appId)] =
              [@ EXCEPT !.name = IF @ # NoName THEN @ ELSE game.name,
                        !.owners = game.owners]]
    ELSE MapSet(map, [game EXCEPT !.priority = 2, !.source = "steamspy"])

\* the all-apps step without the test of line 310
AppsStepOverwrite(map, app) ==
    MapSet(map, Candidate(app.appId, app.name, 0, Undef, Undef, 3, "steam-all-apps"))

\* lines 309-320
AppsStep(map, app) ==
    IF ~Has(map, app.appId)
    THEN MapSet(map, Candidate(app.appId, app.name, 0, Undef, Undef, 3, "steam-all-apps"))
    ELSE map

RECURSIVE MergeCharts(_, _)
MergeCharts(map, list) ==
    IF list = <<>> THEN map ELSE MergeCharts(ChartsStep(map, Head(list)), Tail(list))

RECURSIVE MergeSpy(_, _)
MergeSpy(map, list) ==
    IF list = <<>> THEN map ELSE MergeSpy(SpyStep(map, Head(list)), Tail(list))

RECURSIVE MergeApps(_, _)
MergeApps(map, list) ==
    IF list = <<>> THEN map ELSE MergeApps(AppsStep(map, Head(list)), Tail(list))

\* lines 289-322
MergeAll(allSteamApps, steamChartsGames, steamSpyGames) ==
    MergeApps(MergeSpy(MergeCharts(<<>>, steamChartsGames), steamSpyGames), allSteamApps)

\* the three lists taken in the order the adapters completed
Phase1ResultsByArrival(out, order) == <<out[order[1]], out[order[2]], out[order[3]]>>

\* lines 281-285: Promise.all gives the lists in the order of its argument,
\* [allSteamApps, steamChartsGames, steamSpyGames]
Phase1Results(out, order) == <<out["apps"], out["charts"], out["spy"]>>

(***************************************************************************)
(* Phase 3: the sampling (lines 330-344, 418-422)                          *)
(***************************************************************************)
\* Array.prototype.slice(0, end): a negative end counts from the end
Slice(s, end) ==
    SubSeq(s, 1, IF end < 0 THEN Max(Len(s) + end, 0) ELSE Min(end, Len(s)))

\* line 420: a sort with a random comparator leaves some permutation
Shuffles(array) ==
    {[k \in 1..Len(array) |-> array[p[k]]] : p \in Permutations(1..Len(array))}

\* randomSample returning the whole shuffled array
randomSampleUnsliced(array, size, shuffled) ==
    IF Len(array) <= size THEN array ELSE shuffled

\* lines 418-422, shuffled being the outcome of line 420
randomSample(array, size, shuffled) ==
    IF Len(array) <= size THEN array ELSE Slice(shuffled, size)

IsPriority1And2(g) == g.priority <= 2
IsPriority3(g) == g.priority = 3
\* lines 335-336
Priority1And2(all) == SelectSeq(all, IsPriority1And2)
Priority3Games(all) == SelectSeq(all, IsPriority3)

\* Sampled with the target counted one too low
SampledOffByOne(all, shuffled) ==
    IF Len(all) > TARGET_GAMES - 1
    THEN LET remainingSlots == TARGET_GAMES - 1 - Len(Priority1And2(all))
         IN Priority1And2(all) \o randomSample(Priority3Games(all), remainingSlots, shuffled)
    ELSE all

\* Sampled cutting the whole list down to the target
SampledTruncated(all, shuffled) ==
    IF Len(all) > TARGET_GAMES
    THEN Slice(Priority1And2(all) \o shuffled, TARGET_GAMES)
    ELSE all

\* lines 330-344
Sampled(all, shuffled) ==
    IF Len(all) > TARGET_GAMES
    THEN LET remainingSlots == TARGET_GAMES - Len(Priority1And2(all))
         IN Priority1And2(all) \o randomSample(Priority3Games(all), remainingSlots, shuffled)
    ELSE all

N == Len(gamesToProcess)
\* line 348
appIds == [k \in 1..N |-> gamesToProcess[k].appId]

(***************************************************************************)
(* One lookup = one element of `promises`: fetchWithRetry(url).then(...).  *)
(*   st     fetching (a fetch() is in flight) | sleeping | settled         *)
(*   i      loop variable of makeRequest                                   *)
(*   calls  number of fetch() calls made so far                            *)
(*   waits  the delay before each call after the first                     *)
(*   data   what fetchWithRetry resolved with                              *)
(***************************************************************************)
\* lines 39-41: the first iteration of makeRequest runs synchronously up to
\* its fetch() when fetchWithRetry is called.
StartedLookup == [st |-> "fetching", i |-> 0, calls |-> 1, waits |-> <<>>, data |-> Pending]

\* lines 47-48: response.ok, the body is returned and the loop ends.
OnSuccess(l, body) == [l EXCEPT !.st = "settled", !.data = body]

\* lines 51-59: the catch block of makeRequest after the failure of attempt l.i
OnFailure(l) ==
    IF IsFinalAttempt(l.i)
    THEN [l EXCEPT !.st = "settled", !.data = Null]
    ELSE IF l.i > 0
         THEN [l EXCEPT !.st = "sleeping"]
         ELSE [l EXCEPT !.i = l.i + 1, !.calls = l.calls + 1,
                        !.waits = Append(l.waits, BackoffDelay(l.i))]

\* line 58 resumed: the timer fired, the loop goes to its next iteration
OnWake(l) ==
    [l EXCEPT !.st = "fetching", !.i = l.i + 1, !.calls = l.calls + 1,
              !.waits = Append(l.waits, BackoffDelay(l.i))]

\* lines 208-211: the value the promise of position k resolves with
Outcome(k) == [appId |-> appIds[k], players |-> PlayersOf(lookups[k].data)]

\* line 218: promises.slice(i, i + MAX_CONCURRENT_REQUESTS), as positions
BatchOf(i) == (i + 1)..Min(i + windowSize, N)

BatchSettled(i) == \A k \in BatchOf(i) : lookups[k].st = "settled"

\* BatchResults with the values of a batch in reverse order
BatchResultsReversed(i) ==
    [j \in 1..Cardinality(BatchOf(i)) |-> Outcome(i + Cardinality(BatchOf(i)) + 1 - j)]

\* line 221: the values of Promise.all(batch), in the order of the batch
BatchResults(i) ==
    [j \in 1..Cardinality(BatchOf(i)) |-> Outcome(i + j)]

(***************************************************************************)
(* The merge leg                                                           *)
(***************************************************************************)
FetchDefaults ==
    /\ lookups = <<>>
    /\ batchI = 0
    /\ results = <<>>
    /\ snapshots = <<>>
    /\ gamesWithPlayers = <<>>
    /\ totalPlayers = 0
    /\ result = [totalGames |-> 0, totalPlayers |-> 0, totalProcessed |-> 0,
                 failedRequests |-> 0]
    /\ error = [raised |-> FALSE, found |-> 0, required |-> 0]

\* lines 16, 20: the run uses the configured window and checkpoint interval
ConfigDefaults ==
    /\ windowSize = MAX_CONCURRENT_REQUESTS
    /\ checkpointEvery = INTERMEDIATE_SAVE_INTERVAL

NotExited == -1
OutputDocuments == {"steam-charts.json", "steam-charts.min.json"}

\* line 454: main awaits fetchAllSteamData
MainDefaults ==
    /\ mainPc = "awaitData"
    /\ outputFiles = {}
    /\ exitStatus = NotExited

NoStats == [apiCalls |-> 0, errors |-> 0, cachedGames |-> 0]
NoQuery == [data |-> <<>>, error |-> FALSE, thrown |-> FALSE, client |-> TRUE]

\* SteamChartsSync not constructed
SyncDefaults ==
    /\ syncPc = "notrun"
    /\ popularQuery = NoQuery
    /\ additionalQuery = NoQuery
    /\ dbGames = <<>>
    /\ playerCache = <<>>
    /\ stats = NoStats
    /\ calls = <<>>
    /\ chunkI = 0
    /\ statsMap = <<>>

\* fetch-steamspy-data.js lines 21-27 and fetch-steam-charts.js lines 24-28:
\* the objects as constructed, nothing running
NewSpyFetcher == [games |-> <<>>, totalPlayers |-> 0, totalGames |-> 0, activeGames |-> 0]
SpyLoopIdle == [pc |-> "notrun", page |-> 0, emptyPages |-> 0, fetched |-> <<>>, tag |-> 0]
NoSpyOutput ==
    [totalGames |-> 0, totalPlayers |-> 0, totalScanned |-> 0, games |-> <<>>,
     topGames |-> <<>>, files |-> 0, failed |-> FALSE]
NewChartsFetcher == [games |-> <<>>, totalPlayers |-> 0, processedGames |-> 0]
ChartsBatchesIdle == [pc |-> "notrun", gamesList |-> <<>>, batchIndex |-> 0, tasks |-> <<>>]

ScriptDefaults ==
    /\ spyFetcher = NewSpyFetcher
    /\ spyLoop = SpyLoopIdle
    /\ spyOutput = NoSpyOutput
    /\ chartsFetcher = NewChartsFetcher
    /\ chartsBatches = ChartsBatchesIdle

fetchVars == <<lookups, batchI, results, snapshots, gamesWithPlayers, totalPlayers,
               result, error>>

InitMerge ==
    /\ pc = "phase1"
    /\ chartsRaw \in RemoteCharts
    /\ spyRaw \in [1..SPY_REQUESTS -> RemoteSpy]
    /\ appsRaw \in RemoteApps
    /\ adapterOut = NoOutput
    /\ arrival = <<>>
    /\ allUniqueGames = <<>>
    /\ gamesToProcess = <<>>
    /\ failedRequests = 0
    /\ FetchDefaults
    /\ ConfigDefaults
    /\ MainDefaults
    /\ SyncDefaults
    /\ ScriptDefaults

Completed(src) == \E k \in 1..Len(arrival) : arrival[k] = src

\* an adapter of line 281 returns its list
AdapterReturns(src, list, failed) ==
    /\ pc = "phase1"
    /\ ~Completed(src)
    /\ adapterOut' = [adapterOut EXCEPT ![src] = list]
    /\ arrival' = Append(arrival, src)
    /\ failedRequests' = failedRequests + failed
    /\ UNCHANGED <<pc, chartsRaw, spyRaw, appsRaw, allUniqueGames, gamesToProcess>>
    /\ UNCHANGED fetchVars
    /\ UNCHANGED outerVars

\* lines 78-110
FetchAllSteamAppsReturns ==
    AdapterReturns("apps", fetchAllSteamApps(appsRaw), FailedAttempts(appsRaw))

\* lines 113-132
FetchMostPlayedGamesReturns ==
    AdapterReturns("charts", fetchMostPlayedGames(chartsRaw), FailedAttempts(chartsRaw))

\* lines 135-185
FetchSteamSpyGamesReturns ==
    AdapterReturns("spy", fetchSteamSpyGames(spyRaw), SumFailedAttempts(spyRaw))

\* lines 281-344: Promise.all resolved; merge and sampling run to the call
\* of fetchPlayerCountsParallel without a suspension
MergeAndSample ==
    /\ pc = "phase1"
    /\ Len(arrival) = Cardinality(Sources)
    /\ LET lists == Phase1Results(adapterOut, arrival)
           merged == MergeAll(lists[1], lists[2], lists[3])
       IN /\ allUniqueGames' = merged
          /\ \E shuffled \in Shuffles(Priority3Games(merged)) :
                gamesToProcess' = Sampled(merged, shuffled)
    /\ pc' = "sampled"
    /\ UNCHANGED <<chartsRaw, spyRaw, appsRaw, adapterOut, arrival, failedRequests>>
    /\ UNCHANGED fetchVars
    /\ UNCHANGED outerVars

NextMerge ==
    \/ FetchAllSteamAppsReturns
    \/ FetchMostPlayedGamesReturns
    \/ FetchSteamSpyGamesReturns
    \/ MergeAndSample

SpecMerge == InitMerge /\ [][NextMerge]_vars

(***************************************************************************)
(* The fetch leg                                                           *)
(***************************************************************************)
\* The state at the call of line 349, after a phase 1 without a failed request.
InitFetch ==
    /\ pc = "phase4"
    /\ chartsRaw = NullResp
    /\ spyRaw = <<>>
    /\ appsRaw = NullResp
    /\ adapterOut = NoOutput
    /\ arrival = <<>>
    /\ allUniqueGames = <<>>
    /\ gamesToProcess \in HandedOver
    /\ failedRequests = 0
    /\ FetchDefaults
    /\ ConfigDefaults
    /\ MainDefaults
    /\ SyncDefaults
    /\ ScriptDefaults

\* lines 206-217: appIds.map(...) calls fetchWithRetry for every identifier
\* before the batch loop is entered; the loop then awaits its first batch,
\* or is skipped when there is no promise.
StartAll ==
    /\ pc = "phase4"
    /\ lookups' = [k \in 1..N |-> StartedLookup]
    /\ batchI' = 0
    /\ results' = <<>>
    /\ pc' = IF 0 < N THEN "awaitBatch" ELSE "phase5"
    /\ UNCHANGED <<gamesToProcess, failedRequests, snapshots, gamesWithPlayers,
                   totalPlayers, result, error>>
    /\ UNCHANGED mergeVars
    /\ UNCHANGED outerVars

EventLoopRuns == pc \in {"awaitBatch", "saving"}

\* lines 41-48: the remote call of lookup k answers with a body
Respond(k) ==
    /\ EventLoopRuns
    /\ lookups[k].st = "fetching"
    /\ \E body \in RemotePayloads :
          lookups' = [lookups EXCEPT ![k] = OnSuccess(@, body)]
    /\ UNCHANGED <<pc, gamesToProcess, batchI, results, failedRequests, snapshots,
                   gamesWithPlayers, totalPlayers, result, error>>
    /\ UNCHANGED mergeVars
    /\ UNCHANGED outerVars

\* lines 50-59: the remote call of lookup k fails (transport error or non-2xx)
Fail(k) ==
    /\ EventLoopRuns
    /\ lookups[k].st = "fetching"
    /\ failedRequests' = failedRequests + 1
    /\ lookups' = [lookups EXCEPT ![k] = OnFailure(@)]
    /\ UNCHANGED <<pc, gamesToProcess, batchI, results, snapshots,
                   gamesWithPlayers, totalPlayers, result, error>>
    /\ UNCHANGED mergeVars
    /\ UNCHANGED outerVars

\* line 58: the backoff timer of lookup k fires
Wake(k) ==
    /\ EventLoopRuns
    /\ lookups[k].st = "sleeping"
    /\ lookups' = [lookups EXCEPT ![k] = OnWake(@)]
    /\ UNCHANGED <<pc, gamesToProcess, batchI, results, failedRequests, snapshots,
                   gamesWithPlayers, totalPlayers, result, error>>
    /\ UNCHANGED mergeVars
    /\ UNCHANGED outerVars

\* NextBatchPc leaving the loop after any window
NextBatchPcEarly(i) == "phase5"

\* line 217: i += MAX_CONCURRENT_REQUESTS and the loop test
NextBatchPc(i) ==
    IF i + windowSize < N THEN "awaitBatch" ELSE "phase5"

\* line 230
SaveDue(len) == len % checkpointEvery = 0

\* lines 221-233: Promise.all(batch) resolved
BatchDone ==
    /\ pc = "awaitBatch"
    /\ BatchSettled(batchI)
    /\ results' = results \o BatchResults(batchI)
    /\ IF SaveDue(Len(results'))
       THEN /\ pc' = "saving"
            /\ UNCHANGED batchI
       ELSE /\ pc' = NextBatchPc(batchI)
            /\ batchI' = batchI + windowSize
    /\ UNCHANGED <<gamesToProcess, lookups, failedRequests, snapshots,
                   gamesWithPlayers, totalPlayers, result, error>>
    /\ UNCHANGED mergeVars
    /\ UNCHANGED outerVars

\* lines 244-257: the document saveIntermediateResults writes
Snapshot(res) ==
    LET Active(r) == r.players > 0
        activeGames == SelectSeq(res, Active)
    IN [partial |-> TRUE, processed |-> Len(res), activeGames |-> Len(activeGames)]

\* SaveDone letting the exception of a failed write out
SaveDoneThrowing ==
    /\ pc = "saving"
    /\ \E ok \in BOOLEAN :
          IF ok
          THEN /\ snapshots' = Append(snapshots, Snapshot(results))
               /\ pc' = NextBatchPc(batchI)
               /\ batchI' = batchI + windowSize
               /\ UNCHANGED error
          ELSE /\ pc' = "failed"
               /\ error' = [raised |-> TRUE, found |-> 0, required |-> 0]
               /\ UNCHANGED <<snapshots, batchI>>
    /\ UNCHANGED <<gamesToProcess, lookups, results, failedRequests,
                   gamesWithPlayers, totalPlayers, result>>
    /\ UNCHANGED mergeVars
    /\ UNCHANGED outerVars

\* lines 242-261: the write succeeds, or it throws and the error is swallowed
SaveDone ==
    /\ pc = "saving"
    /\ \E written \in BOOLEAN :
          snapshots' = IF written THEN Append(snapshots, Snapshot(results))
                       ELSE snapshots
    /\ pc' = NextBatchPc(batchI)
    /\ batchI' = batchI + windowSize
    /\ UNCHANGED <<gamesToProcess, lookups, results, failedRequests,
                   gamesWithPlayers, totalPlayers, result, error>>
    /\ UNCHANGED mergeVars
    /\ UNCHANGED outerVars

(***************************************************************************)
(* Phase 5: aggregation, validation, ranking (lines 353-405)               *)
(***************************************************************************)
\* calculateTrending with a value of its own for the third branch
calculateTrendingThreeState(current, peak24h) ==
    IF ~Truthy(peak24h) \/ peak24h = current THEN "stable"
    ELSE IF 10 * current > 9 * peak24h THEN "stable"
    ELSE IF 10 * current > 7 * peak24h THEN "down"
    ELSE "falling"

\* lines 264-270; ratio > 0.9 is 10 * current > 9 * peak for a positive peak
calculateTrending(current, peak24h) ==
    IF ~Truthy(peak24h) \/ peak24h = current THEN "stable"
    ELSE IF 10 * current > 9 * peak24h THEN "stable"
    ELSE IF 10 * current > 7 * peak24h THEN "down"
    ELSE "down"

\* line 354, 357: gameMap.get(appId); a Map built from entries keeps the last
\* entry of a key
GameInfo(games, id) ==
    LET ks == {k \in 1..Len(games) : games[k].appId = id}
    IN games[CHOOSE k \in ks : \A j \in ks : j <= k]

HasGameInfo(games, id) == \E k \in 1..Len(games) : games[k].appId = id

\* Included without the test of the two metrics
IncludedAlways(r, gameInfo) == r.players >= 0

\* line 358
Included(r, gameInfo) == r.players > 0 \/ gameInfo.currentPlayers > 0

\* FinalRecord taking the fetched count alone
FinalRecordFetchedOnly(r, gameInfo) ==
    LET finalPlayerCount == r.players
        peak == IF Truthy(gameInfo.peak24h) THEN gameInfo.peak24h ELSE finalPlayerCount
    IN [name |-> IF gameInfo.name # NoName THEN gameInfo.name
                 ELSE "Game " \o ToString(r.appId),
        appId |-> r.appId,
        currentPlayers |-> finalPlayerCount,
        peak24h |-> peak,
        trending |-> calculateTrending(finalPlayerCount, peak),
        source |-> gameInfo.source,
        owners |-> OrZero(gameInfo.owners),
        rank |-> 0]

\* lines 359-369
FinalRecord(r, gameInfo) ==
    LET finalPlayerCount == Max(r.players, OrZero(gameInfo.currentPlayers))
        peak == IF Truthy(gameInfo.peak24h) THEN gameInfo.peak24h ELSE finalPlayerCount
    IN [name |-> IF gameInfo.name # NoName THEN gameInfo.name
                 ELSE "Game " \o ToString(r.appId),
        appId |-> r.appId,
        currentPlayers |-> finalPlayerCount,
        peak24h |-> peak,
        trending |-> calculateTrending(finalPlayerCount, peak),
        source |-> gameInfo.source,
        owners |-> OrZero(gameInfo.owners),
        rank |-> 0]

\* lines 356-373: playerResults.forEach
RECURSIVE Joined(_, _)
Joined(res, games) ==
    IF res = <<>> THEN <<>>
    ELSE LET r == Head(res)
         IN (IF HasGameInfo(games, r.appId) /\ Included(r, GameInfo(games, r.appId))
             THEN <<FinalRecord(r, GameInfo(games, r.appId))>>
             ELSE <<>>) \o Joined(Tail(res), games)

\* SumPlayers counting the first record only
SumPlayersOfFirst(s) == IF s = <<>> THEN 0 ELSE Head(s).currentPlayers

\* line 371: this.totalPlayers += finalPlayerCount, over the records pushed
RECURSIVE SumPlayers(_)
SumPlayers(s) == IF s = <<>> THEN 0 ELSE Head(s).currentPlayers + SumPlayers(Tail(s))

\* line 381: Array.prototype.sort is stable; g goes behind every element that
\* does not compare after it
RECURSIVE InsertDesc(_, _)
InsertDesc(sorted, g) ==
    IF sorted = <<>> THEN <<g>>
    ELSE IF Head(sorted).currentPlayers >= g.currentPlayers
         THEN <<Head(sorted)>> \o InsertDesc(Tail(sorted), g)
         ELSE <<g>> \o sorted

RECURSIVE SortDesc(_)
SortDesc(s) ==
    IF s = <<>> THEN <<>>
    ELSE InsertDesc(SortDesc(SubSeq(s, 1, Len(s) - 1)), s[Len(s)])

\* Ranked counting from the index itself
RankedFromZero(s) == [k \in 1..Len(s) |-> [s[k] EXCEPT !.rank = k - 1]]

\* lines 382-384
Ranked(s) == [k \in 1..Len(s) |-> [s[k] EXCEPT !.rank = k]]

\* lines 387-390: gamesObject, as the set of its keys
GamesObjectKeys(s) == {s[k].appId : k \in 1..Len(s)}

\* BelowMinimum that also rejects exactly the minimum
BelowMinimumInclusive(n) == n <= MIN_GAMES_REQUIRED

\* line 376
BelowMinimum(n) == n < MIN_GAMES_REQUIRED

\* lines 349-405: fetchPlayerCountsParallel returned
Phase5 ==
    /\ pc = "phase5"
    /\ LET joined == Joined(results, gamesToProcess)
           total == totalPlayers + SumPlayers(joined)
       IN /\ totalPlayers' = total
          /\ IF BelowMinimum(Len(joined))
             THEN /\ pc' = "failed"
                  /\ gamesWithPlayers' = joined
                  /\ error' = [raised |-> TRUE, found |-> Len(joined),
                               required |-> MIN_GAMES_REQUIRED]
                  /\ UNCHANGED result
             ELSE /\ pc' = "returned"
                  /\ gamesWithPlayers' = Ranked(SortDesc(joined))
                  /\ result' = [totalGames |-> Cardinality(GamesObjectKeys(joined)),
                                totalPlayers |-> total,
                                totalProcessed |-> Len(results),
                                failedRequests |-> failedRequests]
                  /\ UNCHANGED error
    /\ UNCHANGED <<gamesToProcess, lookups, batchI, results, failedRequests, snapshots>>
    /\ UNCHANGED mergeVars
    /\ UNCHANGED outerVars

(***************************************************************************)
(* main (lines 446-493) and saveData (lines 425-442)                       *)
(***************************************************************************)
Exit(status) ==
    /\ mainPc' = "exited"
    /\ exitStatus' = status

mainFrame ==
    /\ UNCHANGED <<pc, gamesToProcess, failedRequests>>
    /\ UNCHANGED mergeVars
    /\ UNCHANGED fetchVars
    /\ UNCHANGED configVars
    /\ UNCHANGED syncVars
    /\ UNCHANGED scriptVars

\* MainCatches ending the process with status 0
MainCatchesExitZero ==
    /\ mainPc = "awaitData"
    /\ pc = "failed"
    /\ Exit(0)
    /\ UNCHANGED outputFiles
    /\ mainFrame

\* lines 486-491: fetchAllSteamData rejected, the catch block ends the process
MainCatches ==
    /\ mainPc = "awaitData"
    /\ pc = "failed"
    /\ Exit(1)
    /\ UNCHANGED outputFiles
    /\ mainFrame

\* lines 454-461: fetchAllSteamData resolved; the validation of main, then the
\* call of saveData up to its first write
MainValidates ==
    /\ mainPc = "awaitData"
    /\ pc = "returned"
    /\ IF result.totalGames < MIN_GAMES_REQUIRED
       THEN Exit(1)
       ELSE /\ mainPc' = "saveData"
            /\ UNCHANGED exitStatus
    /\ UNCHANGED outputFiles
    /\ mainFrame

\* lines 430-434: mkdir and the write of steam-charts.json; a rejection goes
\* to the catch block of main
WriteOutput ==
    /\ mainPc = "saveData"
    /\ \E ok \in BOOLEAN :
          IF ok
          THEN /\ outputFiles' = outputFiles \cup {"steam-charts.json"}
               /\ mainPc' = "saveMinified"
               /\ UNCHANGED exitStatus
          ELSE /\ Exit(1)
               /\ UNCHANGED outputFiles
    /\ mainFrame

\* lines 437-441 and 462-485: the write of steam-charts.min.json, then main
\* logs the summary and ends the process
WriteMinified ==
    /\ mainPc = "saveMinified"
    /\ \E ok \in BOOLEAN :
          IF ok
          THEN /\ outputFiles' = outputFiles \cup {"steam-charts.min.json"}
               /\ Exit(0)
          ELSE /\ Exit(1)
               /\ UNCHANGED outputFiles
    /\ mainFrame

NextFetch ==
    \/ StartAll
    \/ \E k \in 1..MaxIds : k <= Len(lookups) /\ Respond(k)
    \/ \E k \in 1..MaxIds : k <= Len(lookups) /\ Fail(k)
    \/ \E k \in 1..MaxIds : k <= Len(lookups) /\ Wake(k)
    \/ BatchDone
    \/ SaveDone
    \/ Phase5

SpecFetch == InitFetch /\ [][NextFetch]_vars

\* main around the fetch leg, for lists of at most MaxMainIds candidates
InitMain == InitFetch /\ Len(gamesToProcess) <= MaxMainIds

NextMain ==
    \/ MainCatches
    \/ MainValidates
    \/ WriteOutput
    \/ WriteMinified
    \/ NextFetch

SpecMain == InitMain /\ [][NextMain]_vars

(***************************************************************************)
(* The fetch leg for other window sizes and checkpoint intervals than the  *)
(* configured ones, on lists of candidates from the all-apps source        *)
(***************************************************************************)
InitWindows ==
    /\ pc = "phase4"
    /\ chartsRaw = NullResp
    /\ spyRaw = <<>>
    /\ appsRaw = NullResp
    /\ adapterOut = NoOutput
    /\ arrival = <<>>
    /\ allUniqueGames = <<>>
    /\ gamesToProcess \in {s \in HandedOver : \A k \in 1..Len(s) : s[k].priority = 3}
    /\ failedRequests = 0
    /\ FetchDefaults
    /\ windowSize \in 1..MaxIds
    /\ checkpointEvery \in {2, 3}
    /\ MainDefaults
    /\ SyncDefaults
    /\ ScriptDefaults

SpecWindows == InitWindows /\ [][NextFetch]_vars

(***************************************************************************)
(* Both legs of the run                                                    *)
(***************************************************************************)
Init == InitMerge \/ InitFetch
Next == NextMerge \/ NextFetch
Spec == Init /\ [][Next]_vars

(***************************************************************************)
(* One run from phase 1 to the end of phase 5, on remote bodies that leave *)
(* at most MaxIds candidates to process: SteamSpy fails, Steam Charts      *)
(* fails or reports one game.                                              *)
(***************************************************************************)
RunSpyFails == [k \in 1..SPY_REQUESTS |-> NullResp]
RunSpyBroken == [RunSpyFails EXCEPT ![2] = Malformed(<<SpyEntry(3, "Three", 2)>>)]

\* <<charts, SteamSpy, apps>>: bodies of the kinds above, and runs in which a
\* source answers with a malformed body
RunInputs ==
    ({NullResp, Resp(<<ChartsEntry(1, 5, 9)>>)} \X {RunSpyFails} \X RemoteApps)
    \cup ({Malformed(<<ChartsEntry(1, 5, 9)>>)} \X {RunSpyFails, RunSpyBroken}
              \X {Resp(<<AppEntry(6, "Six"), AppEntry(4, "Four")>>),
                  Malformed(<<AppEntry(4, "Four")>>)})
    \cup {<<Resp(<<ChartsEntry(1, 5, 9)>>), RunSpyBroken, Malformed(<<AppEntry(4, "Four")>>)>>}

InitRun ==
    /\ pc = "phase1"
    /\ \E input \in RunInputs :
          /\ chartsRaw = input[1]
          /\ spyRaw = input[2]
          /\ appsRaw = input[3]
    /\ adapterOut = NoOutput
    /\ arrival = <<>>
    /\ allUniqueGames = <<>>
    /\ gamesToProcess = <<>>
    /\ failedRequests = 0
    /\ FetchDefaults
    /\ ConfigDefaults
    /\ MainDefaults
    /\ SyncDefaults
    /\ ScriptDefaults

\* lines 346-349: the sampled list goes to fetchPlayerCountsParallel
Phase4Begins ==
    /\ pc = "sampled"
    /\ pc' = "phase4"
    /\ UNCHANGED <<gamesToProcess, failedRequests>>
    /\ UNCHANGED mergeVars
    /\ UNCHANGED outerVars
    /\ UNCHANGED fetchVars

NextRun == NextMerge \/ Phase4Begins \/ NextFetch
SpecRun == InitRun /\ [][NextRun]_vars


(***************************************************************************)
(* SteamChartsSync (src/unnamed/part_001): fetchGamesFromDatabase, then    *)
(* fetchPlayerStatsForBatch on the list it returned, taken as one batch in *)
(* the order returned.  The limits are scaled down: 10,000 games to        *)
(* DATABASE_LIMIT, 100 concurrent lookups to maxConcurrent.  The           *)
(* lastUpdated stamp of a stored result is left out.                       *)
(***************************************************************************)
DATABASE_LIMIT == 3
maxConcurrent == 2

Row(id, cur) == [appId |-> id, currentPlayers |-> cur]

\* What a query can answer: {data, error} with the rows received, {data: null,
\* error}, or a rejected promise; NoClient is this.supabase = null.
Answer(rows) == [data |-> rows, error |-> FALSE, thrown |-> FALSE, client |-> TRUE]
QueryError == [data |-> <<>>, error |-> TRUE, thrown |-> FALSE, client |-> TRUE]
QueryThrows == [data |-> <<>>, error |-> FALSE, thrown |-> TRUE, client |-> TRUE]
NoClient == [data |-> <<>>, error |-> FALSE, thrown |-> FALSE, client |-> FALSE]

PopularAnswers ==
    { NoClient, QueryThrows, QueryError,
      Answer(<<>>),
      Answer(<<Row(1, 9)>>),
      Answer(<<Row(1, 9), Row(2, 5)>>),
      Answer(<<Row(1, 9), Row(1, 9)>>),
      Answer(<<Row(1, 9), Row(1, 9), Row(1, 9)>>),
      Answer(<<Row(1, 9), Row(2, 5), Row(3, 2), Row(4, 1)>>) }

AdditionalAnswers ==
    { QueryThrows, QueryError,
      Answer(<<>>),
      Answer(<<Row(1, Undef), Row(3, Undef)>>),
      Answer(<<Row(3, Undef), Row(1, Undef), Row(3, Undef)>>),
      Answer(<<Row(1, Undef), Row(2, Undef), Row(3, Undef), Row(4, Undef),
               Row(5, Undef), Row(6, Undef), Row(7, Undef)>>) }

\* lines 183-235
fetchGamesFromDatabase(popular, additional) ==
    IF ~popular.client \/ popular.thrown THEN <<>>
    ELSE LET popularGames == popular.data
             remaining == DATABASE_LIMIT - Len(popularGames)
             NotPopular(g) == ~Has(popularGames, g.appId)
             newGames == Slice(SelectSeq(additional.data, NotPopular), remaining)
         IN IF Len(popularGames) < DATABASE_LIMIT
            THEN IF additional.thrown THEN <<>>
                 ELSE IF additional.error THEN Slice(popularGames, DATABASE_LIMIT)
                 ELSE Slice(popularGames \o newGames, DATABASE_LIMIT)
            ELSE Slice(popularGames, DATABASE_LIMIT)

\* What GetNumberOfCurrentPlayers answers to axios.get: a body with
\* response.player_count, or a body without the response field (a 4xx status
\* passes validateStatus)
Count(c) == [response |-> TRUE, player_count |-> c]
NoResponse == [response |-> FALSE, player_count |-> Undef]
SyncPayloads == {Count(7), Count(8), NoResponse}

\* lines 92-98, 103, 108: the values fetchSingleGamePlayerCount returns
Stat(id, c) ==
    [appId |-> id, currentPlayers |-> OrZero(c), peak24h |-> (OrZero(c) * 12) \div 10,
     peakAllTime |-> OrZero(c) * 2]
ZeroStat(id) == [appId |-> id, currentPlayers |-> 0, peak24h |-> 0, peakAllTime |-> 0]

IdleCall == [st |-> "idle", ret |-> ZeroStat(0)]
SyncN == Len(dbGames)

\* Chunk taking every game that is left
ChunkWhole(i) == (i + 1)..SyncN

\* line 119: games.slice(i, i + this.maxConcurrent), as positions
Chunk(i) == (i + 1)..Min(i + maxConcurrent, SyncN)

\* line 77: this.playerCache.has(appId)
CacheHit(cache, id) == Has(cache, id)

syncFrame ==
    /\ UNCHANGED <<pc, gamesToProcess, failedRequests>>
    /\ UNCHANGED mergeVars
    /\ UNCHANGED fetchVars
    /\ UNCHANGED configVars
    /\ UNCHANGED mainVars
    /\ UNCHANGED scriptVars

InitSync ==
    /\ pc = "notrun"
    /\ chartsRaw = NullResp
    /\ spyRaw = <<>>
    /\ appsRaw = NullResp
    /\ adapterOut = NoOutput
    /\ arrival = <<>>
    /\ allUniqueGames = <<>>
    /\ gamesToProcess = <<>>
    /\ failedRequests = 0
    /\ FetchDefaults
    /\ ConfigDefaults
    /\ MainDefaults
    /\ ScriptDefaults
    /\ syncPc = "start"
    /\ popularQuery \in PopularAnswers
    /\ additionalQuery \in AdditionalAnswers
    /\ dbGames = <<>>
    /\ playerCache = <<>>
    /\ stats = NoStats
    /\ calls = <<>>
    /\ chunkI = 0
    /\ statsMap = <<>>

\* lines 183-235, and lines 376-380 of run: an empty list ends the run
FetchGamesFromDatabase ==
    /\ syncPc = "start"
    /\ dbGames' = fetchGamesFromDatabase(popularQuery, additionalQuery)
    /\ calls' = [k \in 1..Len(dbGames') |-> IdleCall]
    /\ syncPc' = IF dbGames' = <<>> THEN "ended" ELSE "chunk"
    /\ UNCHANGED <<popularQuery, additionalQuery, playerCache, stats, chunkI, statsMap>>
    /\ syncFrame

\* lines 118-124 and 72-85: chunk.map calls fetchSingleGamePlayerCount for every
\* game of the chunk; each call runs to its return from the cache or to its
\* axios.get
ChunkStart ==
    /\ syncPc = "chunk"
    /\ LET hits == {k \in Chunk(chunkI) : CacheHit(playerCache, dbGames[k].appId)}
       IN /\ calls' = [k \in 1..SyncN |->
                         IF k \in hits
                         THEN [st |-> "hit", ret |-> Get(playerCache, dbGames[k].appId)]
                         ELSE IF k \in Chunk(chunkI)
                              THEN [st |-> "awaiting", ret |-> ZeroStat(0)]
                              ELSE calls[k]]
          /\ stats' = [stats EXCEPT !.cachedGames = @ + Cardinality(hits)]
    /\ syncPc' = "awaitChunk"
    /\ UNCHANGED <<popularQuery, additionalQuery, dbGames, playerCache, chunkI, statsMap>>
    /\ syncFrame

\* lines 84-106: axios.get resolved
AxiosResolves(k) ==
    /\ calls[k].st = "awaiting"
    /\ \E body \in SyncPayloads :
          IF body.response
          THEN LET res == Stat(dbGames[k].appId, body.player_count)
               IN /\ playerCache' = MapSet(playerCache, res)
                  /\ calls' = [calls EXCEPT ![k] = [st |-> "answered", ret |-> res]]
          ELSE /\ calls' = [calls EXCEPT ![k] =
                               [st |-> "answered", ret |-> ZeroStat(dbGames[k].appId)]]
               /\ UNCHANGED playerCache
    /\ stats' = [stats EXCEPT !.apiCalls = @ + 1]
    /\ UNCHANGED <<syncPc, popularQuery, additionalQuery, dbGames, chunkI, statsMap>>
    /\ syncFrame

\* AxiosRejects without the count of the catch block
AxiosRejectsUncounted(k) ==
    /\ calls[k].st = "awaiting"
    /\ calls' = [calls EXCEPT ![k] = [st |-> "failed", ret |-> ZeroStat(dbGames[k].appId)]]
    /\ UNCHANGED <<syncPc, popularQuery, additionalQuery, dbGames, playerCache, stats, chunkI,
                   statsMap>>
    /\ syncFrame

\* lines 107-111: axios.get rejected (timeout, network error, status >= 500)
AxiosRejects(k) ==
    /\ calls[k].st = "awaiting"
    /\ calls' = [calls EXCEPT ![k] = [st |-> "failed", ret |-> ZeroStat(dbGames[k].appId)]]
    /\ stats' = [stats EXCEPT !.errors = @ + 1]
    /\ UNCHANGED <<syncPc, popularQuery, additionalQuery, dbGames, playerCache, chunkI,
                   statsMap>>
    /\ syncFrame

\* lines 128-130: results.set for the values of the chunk, in order
RECURSIVE SetAll(_, _, _)
SetAll(map, from, to) ==
    IF from > to THEN map
    ELSE SetAll(MapSet(map, [calls[from].ret EXCEPT !.appId = dbGames[from].appId]),
                from + 1, to)

\* lines 126-137: Promise.allSettled resolved; the delay follows unless this
\* was the last chunk
ChunkSettled ==
    /\ syncPc = "awaitChunk"
    /\ \A k \in Chunk(chunkI) : calls[k].st \in {"hit", "answered", "failed"}
    /\ statsMap' = SetAll(statsMap, chunkI + 1, Min(chunkI + maxConcurrent, SyncN))
    /\ IF chunkI + maxConcurrent < SyncN
       THEN /\ syncPc' = "delay"
            /\ UNCHANGED chunkI
       ELSE /\ syncPc' = "returned"
            /\ chunkI' = chunkI + maxConcurrent
    /\ UNCHANGED <<popularQuery, additionalQuery, dbGames, playerCache, stats, calls>>
    /\ syncFrame

\* lines 135-137, 117: the timer fired, the loop goes to its next chunk
DelayDone ==
    /\ syncPc = "delay"
    /\ chunkI' = chunkI + maxConcurrent
    /\ syncPc' = "chunk"
    /\ UNCHANGED <<popularQuery, additionalQuery, dbGames, playerCache, stats, calls,
                   statsMap>>
    /\ syncFrame

NextSync ==
    \/ FetchGamesFromDatabase
    \/ ChunkStart
    \/ \E k \in 1..DATABASE_LIMIT : k <= Len(calls) /\ AxiosResolves(k)
    \/ \E k \in 1..DATABASE_LIMIT : k <= Len(calls) /\ AxiosRejects(k)
    \/ ChunkSettled
    \/ DelayDone

SpecSync == InitSync /\ [][NextSync]_vars

(***************************************************************************)
(* SteamSpyFetcher (src/.github/scripts/fetch-steamspy-data.js): the page  *)
(* loop and the tag phase of fetchAllGames, its result, and saveData with  *)
(* the summary.  MAX_PAGES, the thresholds, the number of tags and the     *)
(* length of the summary are scaled down.  this.games and the games of the *)
(* result are objects with integer keys: their entries enumerate in        *)
(* ascending order of appId, whatever the order of insertion, and are kept *)
(* as sequences in that order.                                             *)
(***************************************************************************)
MAX_PAGES == 6
SPY_TARGET_GAMES == 3
SPY_MIN_GAMES_REQUIRED == 2
TAG_COUNT == 2
TOP_GAMES == 2
EMPTY_PAGES_LIMIT == 3

\* What fetchJson resolves with: null (request failed or body unparseable),
\* a JSON value that is not an object, or an object of appId -> game
Entry(id, ccu) == [appId |-> id, ccu |-> ccu]
NullBody == [kind |-> "null", entries |-> <<>>]
ScalarBody == [kind |-> "scalar", entries |-> <<>>]
ObjectBody(entries) == [kind |-> "object", entries |-> entries]

PageBodies ==
    { NullBody, ScalarBody, ObjectBody(<<>>),
      ObjectBody(<<Entry(1, 5), Entry(2, 9)>>),
      ObjectBody(<<Entry(2, 4), Entry(3, 7)>>),
      ObjectBody(<<Entry(4, 0)>>) }

TagBodies ==
    { NullBody,
      ObjectBody(<<Entry(1, 6), Entry(5, 3)>>),
      ObjectBody(<<Entry(5, 8), Entry(6, 0)>>) }

SpyRecord(e, src) ==
    [appId |-> e.appId, currentPlayers |-> e.ccu, source |-> src, rank |-> 0]

\* obj[key] = rec on an object with integer keys: an existing key keeps its
\* place, a new one goes to its place in ascending order
RECURSIVE ObjectPut(_, _)
ObjectPut(obj, rec) ==
    IF obj = <<>> THEN <<rec>>
    ELSE IF Head(obj).appId = rec.appId THEN <<rec>> \o Tail(obj)
    ELSE IF Head(obj).appId > rec.appId THEN <<rec>> \o obj
    ELSE <<Head(obj)>> \o ObjectPut(Tail(obj), rec)

RECURSIVE ObjectFrom(_)
ObjectFrom(list) ==
    IF list = <<>> THEN <<>>
    ELSE ObjectPut(ObjectFrom(SubSeq(list, 1, Len(list) - 1)), list[Len(list)])

\* Object.values
ObjectValues(obj) == obj

\* lines 65-97: the body of the forEach of fetchPage for one entry
PageEntry(f, e) ==
    IF e.ccu > 0
    THEN [f EXCEPT !.totalGames = @ + 1,
                   !.activeGames = @ + 1,
                   !.totalPlayers = @ + e.ccu,
                   !.games = ObjectPut(@, SpyRecord(e, "steamspy"))]
    ELSE [f EXCEPT !.totalGames = @ + 1]

RECURSIVE PageEntries(_, _)
PageEntries(f, entries) ==
    IF entries = <<>> THEN f
    ELSE PageEntries(PageEntry(f, Head(entries)), Tail(entries))

\* line 57: fetchPage returns null
PageIsNull(body) == body.kind # "object" \/ body.entries = <<>>

\* lines 51-101
fetchPage(f, body) == IF PageIsNull(body) THEN f ELSE PageEntries(f, body.entries)

\* TagEntry storing the game whether or not its appId is stored
TagEntryOverwriting(f, e) ==
    IF e.ccu > 0
    THEN [f EXCEPT !.activeGames = @ + 1,
                   !.totalPlayers = @ + e.ccu,
                   !.games = ObjectPut(@, SpyRecord(e, "steamspy-tag"))]
    ELSE f

\* lines 132-158: the body of the forEach of fetchTagGames for one entry
TagEntry(f, e) ==
    IF ~Has(f.games, e.appId) /\ e.ccu > 0
    THEN [f EXCEPT !.activeGames = @ + 1,
                   !.totalPlayers = @ + e.ccu,
                   !.games = ObjectPut(@, SpyRecord(e, "steamspy-tag"))]
    ELSE f

RECURSIVE TagEntries(_, _)
TagEntries(f, entries) ==
    IF entries = <<>> THEN f
    ELSE TagEntries(TagEntry(f, Head(entries)), Tail(entries))

\* lines 199-205: where fetchAllGames goes when the page loop has ended
AfterPages(f) == IF f.activeGames < SPY_TARGET_GAMES THEN "tags" ELSE "finish"

\* EmptyLimitReached of a loop that stops at the first empty page
EmptyLimitReachedAtOnce(n) == n >= 1

\* line 182
EmptyLimitReached(n) == n >= EMPTY_PAGES_LIMIT

spyFrame ==
    /\ UNCHANGED <<pc, gamesToProcess, failedRequests>>
    /\ UNCHANGED mergeVars
    /\ UNCHANGED fetchVars
    /\ UNCHANGED configVars
    /\ UNCHANGED mainVars
    /\ UNCHANGED syncVars
    /\ UNCHANGED <<chartsFetcher, chartsBatches>>

InitSpy ==
    /\ pc = "notrun"
    /\ chartsRaw = NullResp
    /\ spyRaw = <<>>
    /\ appsRaw = NullResp
    /\ adapterOut = NoOutput
    /\ arrival = <<>>
    /\ allUniqueGames = <<>>
    /\ gamesToProcess = <<>>
    /\ failedRequests = 0
    /\ FetchDefaults
    /\ ConfigDefaults
    /\ MainDefaults
    /\ SyncDefaults
    /\ spyFetcher = NewSpyFetcher
    /\ spyLoop = [pc |-> "pages", page |-> 0, emptyPages |-> 0, fetched |-> <<>>, tag |-> 0]
    /\ spyOutput = NoSpyOutput
    /\ chartsFetcher = NewChartsFetcher
    /\ chartsBatches = ChartsBatchesIdle

\* lines 177-197: one turn of the page loop
FetchPage ==
    /\ spyLoop.pc = "pages"
    /\ spyLoop.page < MAX_PAGES
    /\ \E body \in PageBodies :
          LET f == fetchPage(spyFetcher, body)
              empties == IF PageIsNull(body) THEN spyLoop.emptyPages + 1 ELSE 0
              stop == PageIsNull(body) /\ EmptyLimitReached(empties)
              next == IF stop THEN spyLoop.page ELSE spyLoop.page + 1
          IN /\ spyFetcher' = f
             /\ spyLoop' = [spyLoop EXCEPT
                              !.emptyPages = empties,
                              !.page = next,
                              !.fetched = Append(@, [page |-> spyLoop.page,
                                                     empty |-> PageIsNull(body)]),
                              !.pc = IF stop \/ next >= MAX_PAGES
                                     THEN AfterPages(f) ELSE "pages"]
    /\ UNCHANGED spyOutput
    /\ spyFrame

\* lines 122-162: one turn of the loop over the tags
FetchTag ==
    /\ spyLoop.pc = "tags"
    /\ \E body \in TagBodies :
          spyFetcher' = IF body.kind = "object"
                        THEN TagEntries(spyFetcher, body.entries)
                        ELSE spyFetcher
    /\ spyLoop' = [spyLoop EXCEPT !.tag = @ + 1,
                                  !.pc = IF spyLoop.tag + 1 >= TAG_COUNT
                                         THEN "finish" ELSE "tags"]
    /\ UNCHANGED spyOutput
    /\ spyFrame

\* lines 222-234: the result, with the games of sortedGamesObject
SpyResult(f, sortedGames) ==
    [totalGames |-> Len(sortedGames), totalPlayers |-> f.totalPlayers,
     totalScanned |-> f.totalGames, games |-> ObjectFrom(sortedGames),
     topGames |-> <<>>, files |-> 0, failed |-> FALSE]

\* lines 207-248: sort, ranks, result and validation
SpyFinish ==
    /\ spyLoop.pc = "finish"
    /\ LET sortedGames == Ranked(SortDesc(ObjectValues(spyFetcher.games)))
       IN /\ spyFetcher' = [spyFetcher EXCEPT !.games = ObjectFrom(sortedGames)]
          /\ spyOutput' = SpyResult(spyFetcher, sortedGames)
          /\ spyLoop' = [spyLoop EXCEPT !.pc =
                            IF Len(sortedGames) < SPY_MIN_GAMES_REQUIRED
                            THEN "failed" ELSE "returned"]
    /\ spyFrame

\* lines 269-277: topGames of the summary
TopGames(games) ==
    LET top == Slice(ObjectValues(games), TOP_GAMES)
    IN [k \in 1..Len(top) |->
           [appId |-> top[k].appId, players |-> top[k].currentPlayers, rank |-> top[k].rank]]

\* lines 252-284 and 296-320: saveData writes the document, the minified
\* document and the summary; a write that fails ends the run with status 1
SpySaveData ==
    /\ spyLoop.pc = "returned"
    /\ \E done \in 0..3 :
          /\ spyOutput' = [spyOutput EXCEPT
                              !.files = done,
                              !.failed = done < 3,
                              !.topGames = IF done = 3 THEN TopGames(spyOutput.games)
                                           ELSE <<>>]
          /\ spyLoop' = [spyLoop EXCEPT !.pc = "exited"]
    /\ UNCHANGED spyFetcher
    /\ spyFrame

NextSpy ==
    \/ FetchPage
    \/ FetchTag
    \/ SpyFinish
    \/ SpySaveData

SpecSpy == InitSpy /\ [][NextSpy]_vars

\* every request of the page loop is answered or fails
SpecSpyLive == SpecSpy /\ WF_vars(FetchPage)

(***************************************************************************)
(* SteamDataFetcher of src/.github/scripts/fetch-steam-charts.js:          *)
(* processGamesInBatches.  A task is the async callback of batch.map for   *)
(* one game: the lookup (fetchPlayerCount over makeRequest with its        *)
(* retries), the delay, and the update of this.games.  The batch size is   *)
(* scaled down; the number of attempts keeps its value.  Of the record     *)
(* stored for a game the name, peak24h and trending fields are left out.   *)
(***************************************************************************)
CHARTS_MAX_CONCURRENT == 2
CHARTS_RETRIES == 3

ListedGame(id, cur, rank) == [appId |-> id, currentPlayers |-> cur, rank |-> rank]

\* the lists fetchAllSteamData hands over: values of a Map keyed by appId
ChartsLists ==
    { <<>>,
      <<ListedGame(1, 5, 1)>>,
      <<ListedGame(1, 5, 1), ListedGame(2, 0, 0)>>,
      <<ListedGame(1, 5, 1), ListedGame(2, 0, 0), ListedGame(3, 0, 0)>>,
      <<ListedGame(2, 0, 0), ListedGame(3, 0, 0), ListedGame(1, 0, 2)>> }

\* what GetNumberOfCurrentPlayers can answer with status 2xx: the value
\* fetchPlayerCount returns for it (0 when result is not 1)
ChartsAnswers == {0, 7}

IdleTask == [st |-> "idle", i |-> 0, currentPlayers |-> 0]
ChartsN == Len(chartsBatches.gamesList)

\* ChartsBatch taking every game that is left
ChartsBatchWhole(b) == (b * CHARTS_MAX_CONCURRENT + 1)..ChartsN

\* lines 122-124: batches[b], as positions of gamesList
ChartsBatch(b) ==
    (b * CHARTS_MAX_CONCURRENT + 1)..Min((b + 1) * CHARTS_MAX_CONCURRENT, ChartsN)

\* number of batches
ChartsBatchCount == (ChartsN + CHARTS_MAX_CONCURRENT - 1) \div CHARTS_MAX_CONCURRENT

\* lines 130-131: batch.map starts the task of every game of the batch, each
\* running to its first fetch
StartedTasks(tasks, b) ==
    [k \in 1..Len(tasks) |->
        IF k \in ChartsBatch(b) THEN [IdleTask EXCEPT !.st = "fetching"] ELSE tasks[k]]

chartsFrame ==
    /\ UNCHANGED <<pc, gamesToProcess, failedRequests>>
    /\ UNCHANGED mergeVars
    /\ UNCHANGED fetchVars
    /\ UNCHANGED configVars
    /\ UNCHANGED mainVars
    /\ UNCHANGED syncVars
    /\ UNCHANGED <<spyFetcher, spyLoop, spyOutput>>

InitCharts ==
    /\ pc = "notrun"
    /\ chartsRaw = NullResp
    /\ spyRaw = <<>>
    /\ appsRaw = NullResp
    /\ adapterOut = NoOutput
    /\ arrival = <<>>
    /\ allUniqueGames = <<>>
    /\ gamesToProcess = <<>>
    /\ failedRequests = 0
    /\ FetchDefaults
    /\ ConfigDefaults
    /\ MainDefaults
    /\ SyncDefaults
    /\ spyFetcher = NewSpyFetcher
    /\ spyLoop = SpyLoopIdle
    /\ spyOutput = NoSpyOutput
    /\ chartsFetcher = NewChartsFetcher
    /\ \E list \in ChartsLists :
          chartsBatches = [pc |-> "start", gamesList |-> list, batchIndex |-> 0,
                           tasks |-> [k \in 1..Len(list) |-> IdleTask]]

\* lines 117-152: the call, up to the await of the first batch (or to the
\* return when there is no batch)
ProcessGamesInBatches ==
    /\ chartsBatches.pc = "start"
    /\ chartsBatches' =
          IF ChartsBatchCount = 0
          THEN [chartsBatches EXCEPT !.pc = "returned"]
          ELSE [chartsBatches EXCEPT !.pc = "awaitBatch",
                                     !.tasks = StartedTasks(@, 0)]
    /\ UNCHANGED chartsFetcher
    /\ chartsFrame

\* lines 34-36, 107-108, 132: the request of task k is answered with a 2xx
\* status; the task goes on to its delay
ChartsRespond(k) ==
    /\ chartsBatches.tasks[k].st = "fetching"
    /\ \E count \in ChartsAnswers :
          chartsBatches' = [chartsBatches EXCEPT
                              !.tasks[k].st = "delay",
                              !.tasks[k].currentPlayers = count]
    /\ UNCHANGED chartsFetcher
    /\ chartsFrame

\* lines 38-42, 110-113: the request of task k fails; makeRequest sleeps and
\* tries again, or throws after the last attempt and fetchPlayerCount
\* returns 0
ChartsFail(k) ==
    /\ chartsBatches.tasks[k].st = "fetching"
    /\ chartsBatches' =
          IF chartsBatches.tasks[k].i = CHARTS_RETRIES - 1
          THEN [chartsBatches EXCEPT !.tasks[k].st = "delay",
                                     !.tasks[k].currentPlayers = 0]
          ELSE [chartsBatches EXCEPT !.tasks[k].st = "backoff"]
    /\ UNCHANGED chartsFetcher
    /\ chartsFrame

\* line 42: the backoff timer of task k fires
ChartsWake(k) ==
    /\ chartsBatches.tasks[k].st = "backoff"
    /\ chartsBatches' = [chartsBatches EXCEPT !.tasks[k].st = "fetching",
                                              !.tasks[k].i = @ + 1]
    /\ UNCHANGED chartsFetcher
    /\ chartsFrame

\* lines 135-149: the record update of a task
UpdatedFetcher(f, game, currentPlayers) ==
    IF currentPlayers > 0 \/ game.currentPlayers > 0
    THEN LET finalPlayerCount == Max(currentPlayers, game.currentPlayers)
         IN [f EXCEPT
               !.games = ObjectPut(@, [appId |-> game.appId,
                                       currentPlayers |-> finalPlayerCount,
                                       rank |-> IF game.rank # 0 THEN game.rank
                                                ELSE f.processedGames + 1]),
               !.totalPlayers = @ + finalPlayerCount,
               !.processedGames = @ + 1]
    ELSE f

\* lines 132-149: the delay of task k is over; the task updates this.games
\* and ends
ChartsDelayDone(k) ==
    /\ chartsBatches.tasks[k].st = "delay"
    /\ chartsFetcher' = UpdatedFetcher(chartsFetcher, chartsBatches.gamesList[k],
                                       chartsBatches.tasks[k].currentPlayers)
    /\ chartsBatches' = [chartsBatches EXCEPT !.tasks[k].st = "done"]
    /\ chartsFrame

\* lines 126-152: Promise.all of the batch resolved; the loop goes to the
\* next batch and starts its tasks, or the function returns
ChartsBatchDone ==
    /\ chartsBatches.pc = "awaitBatch"
    /\ \A k \in ChartsBatch(chartsBatches.batchIndex) : chartsBatches.tasks[k].st = "done"
    /\ chartsBatches' =
          IF chartsBatches.batchIndex + 1 < ChartsBatchCount
          THEN [chartsBatches EXCEPT !.batchIndex = @ + 1,
                                     !.tasks = StartedTasks(@, chartsBatches.batchIndex + 1)]
          ELSE [chartsBatches EXCEPT !.batchIndex = @ + 1, !.pc = "returned"]
    /\ UNCHANGED chartsFetcher
    /\ chartsFrame

NextCharts ==
    \/ ProcessGamesInBatches
    \/ \E k \in 1..ChartsN : ChartsRespond(k)
    \/ \E k \in 1..ChartsN : ChartsFail(k)
    \/ \E k \in 1..ChartsN : ChartsWake(k)
    \/ \E k \in 1..ChartsN : ChartsDelayDone(k)
    \/ ChartsBatchDone

SpecCharts == InitCharts /\ [][NextCharts]_vars

(***************************************************************************)
(* Properties of the fetch leg                                             *)
(***************************************************************************)
Positions == 1..Len(lookups)
Started(k) == lookups[k].calls >= 1
Settled(k) == lookups[k].st = "settled"
Exhausted(k) == Settled(k) /\ lookups[k].data.kind = "null"
Usable(k) == Settled(k) /\ lookups[k].data.kind = "json" /\ lookups[k].data.result = 1
Outstanding == {k \in Positions : Started(k) /\ ~Settled(k)}
WindowOf(k) == (k - 1) \div windowSize
FetchReturned == pc \in {"phase5", "returned", "failed"}
RunEnded == pc \in {"returned", "failed"}
\* some step of the run is possible: a continuation is ready, or the batch
\* awaited has a lookup with a call or a timer pending
RunCanProceed ==
    \/ pc \in {"phase4", "saving", "phase5"}
    \/ /\ pc = "awaitBatch"
       /\ \/ BatchSettled(batchI)
          \/ \E k \in BatchOf(batchI) : lookups[k].st \in {"fetching", "sleeping"}
OutcomesOf(id) == {j \in 1..Len(results) : results[j].appId = id}

\* C1: the number of lookups that have been started and have not settled never
\* exceeds MAX_CONCURRENT_REQUESTS.
C1_OutstandingAtMostK == Cardinality(Outstanding) <= MAX_CONCURRENT_REQUESTS

\* C2: no lookup of a later window has made its first remote call while a
\* lookup of an earlier window has not settled.
C2_WindowBarrier ==
    \A j \in Positions : \A k \in Positions :
        (WindowOf(j) < WindowOf(k) /\ Started(k)) => Settled(j)

\* C3: fetchPlayerCountsParallel returns exactly one outcome per input
\* identifier, and the outcome of a lookup that failed or had no usable
\* payload has players = 0.
C3_OneOutcomePerIdentifier ==
    FetchReturned =>
        /\ Len(results) = N
        /\ \A k \in 1..N :
              /\ Cardinality(OutcomesOf(appIds[k])) = 1
              /\ ~Usable(k) => \A j \in OutcomesOf(appIds[k]) : results[j].players = 0

C3_Witness ==
    /\ pc = "phase5"
    /\ N = 3
    /\ Exhausted(1)
    /\ lookups[2].data = Json(42, 7)
    /\ Usable(3) /\ results[3].players = 7

\* C4: a lookup that fails on every attempt resolves with null and players = 0,
\* never stops the run, leaves every other identifier its own outcome, and is
\* left out of the final list when its candidate has no static metric.
C4_FailureIsolated ==
    /\ (~RunEnded /\ \E k \in Positions : Exhausted(k)) => RunCanProceed
    /\ FetchReturned =>
          \A k \in 1..N :
              /\ \E j \in OutcomesOf(appIds[k]) : TRUE
              /\ Exhausted(k) => \A j \in OutcomesOf(appIds[k]) : results[j].players = 0
              /\ Usable(k) => \A j \in OutcomesOf(appIds[k]) :
                                  results[j].players = OrZero(lookups[k].data.player_count)
    /\ RunEnded =>
          \A k \in 1..N :
              (Exhausted(k) /\ ~(gamesToProcess[k].currentPlayers > 0)) =>
                  \A g \in 1..Len(gamesWithPlayers) :
                      gamesWithPlayers[g].appId # appIds[k]

C4_Witness ==
    /\ pc = "returned"
    /\ N = 3
    /\ Exhausted(1) /\ gamesToProcess[1].currentPlayers > 0
    /\ Exhausted(2) /\ gamesToProcess[2].currentPlayers = 0
    /\ results[3].players = 7
    /\ Len(gamesWithPlayers) = 2

\* C5: the failure counter of the metadata equals the number of identifiers
\* whose lookup exhausted its retries.
C5_FailedCountIsExhaustedLookups ==
    pc = "returned" =>
        result.failedRequests = Cardinality({k \in Positions : Exhausted(k)})

\* C6: a lookup that fails every time makes MAX_RETRIES retries after its
\* initial call and then reports failure; no lookup makes more calls than that,
\* and a settled lookup makes no call.
C6_MaxRetriesAfterInitialCall ==
    \A k \in Positions :
        /\ lookups[k].calls <= 1 + MAX_RETRIES
        /\ Exhausted(k) => lookups[k].calls = 1 + MAX_RETRIES

IdsOf(s) == {s[k].appId : k \in 1..Len(s)}
NoRepeatedId(s) == \A j \in 1..Len(s) : \A k \in 1..Len(s) : j # k => s[j].appId # s[k].appId
AllReturned == Len(arrival) = Cardinality(Sources)

\* C8: for fixed contents of the three sources the merged map is the same
\* for every order in which the adapters complete: it is the merge of the
\* Steam-Charts, SteamSpy and all-apps lists in that fixed order (same ids,
\* fields, priorities and insertion order).
C8_MergeIndependentOfArrival ==
    pc = "sampled" =>
        allUniqueGames = MergeAll(fetchAllSteamApps(appsRaw),
                                  fetchMostPlayedGames(chartsRaw),
                                  fetchSteamSpyGames(spyRaw))

C8_Witness ==
    /\ pc = "sampled"
    /\ arrival = <<"spy", "charts", "apps">>
    /\ \A src \in Sources : adapterOut[src] # <<>>
    /\ Len(allUniqueGames) >= 4

\* C9: no identifier appears twice at any stage: not in the SteamSpy list, the
\* merged set, the sampled set, the fetch results or the final list, and the
\* merged set has exactly one candidate for every id of the sources.
C9_NoDuplicateId ==
    /\ NoRepeatedId(adapterOut["spy"])
    /\ NoRepeatedId(allUniqueGames)
    /\ NoRepeatedId(gamesToProcess)
    /\ NoRepeatedId(results)
    /\ NoRepeatedId(gamesWithPlayers)
    /\ pc = "sampled" =>
          \A id \in UNION {IdsOf(adapterOut[src]) : src \in Sources} :
              Cardinality({k \in 1..Len(allUniqueGames) : allUniqueGames[k].appId = id}) = 1
    /\ pc = "returned" => result.totalGames = Len(gamesWithPlayers)

C9_Witness ==
    /\ pc = "sampled"
    /\ Len(adapterOut["charts"]) = 3
    /\ adapterOut["charts"][1].appId = adapterOut["charts"][3].appId
    /\ \A src \in Sources : adapterOut["charts"][1].appId \in IdsOf(adapterOut[src])
    /\ spyRaw[1] = spyRaw[2] /\ spyRaw[1].ok
    /\ Len(gamesToProcess) >= 3

\* the merged map after the Steam-Charts pass, after the first j candidates of
\* the SteamSpy pass, and after the first j candidates of the all-apps pass
AfterChartsPass == MergeCharts(<<>>, Phase1Results(adapterOut, arrival)[2])
AfterSpy(j) == MergeSpy(AfterChartsPass, SubSeq(Phase1Results(adapterOut, arrival)[3], 1, j))
AfterApps(j) ==
    MergeApps(AfterSpy(Len(Phase1Results(adapterOut, arrival)[3])),
              SubSeq(Phase1Results(adapterOut, arrival)[1], 1, j))

Preserved(old, new) ==
    /\ new.appId = old.appId
    /\ new.priority = old.priority
    /\ new.source = old.source
    /\ old.name # NoName => new.name = old.name
    /\ Truthy(old.owners) => new.owners = old.owners
    /\ Truthy(old.currentPlayers) => new.currentPlayers = old.currentPlayers
    /\ Truthy(old.peak24h) => new.peak24h = old.peak24h

\* C10: in the merge, a candidate of a lower-priority source whose id is
\* already present changes no populated field (name and owners included) of
\* the existing record, nor its priority or origin tag.
C10_NoOverwriteByLowerPriority ==
    AllReturned =>
        LET spy == Phase1Results(adapterOut, arrival)[3]
            apps == Phase1Results(adapterOut, arrival)[1]
        IN /\ \A j \in 1..Len(spy) :
                 (Has(AfterSpy(j - 1), spy[j].appId)
                    /\ Get(AfterSpy(j - 1), spy[j].appId).priority < 2) =>
                 Preserved(Get(AfterSpy(j - 1), spy[j].appId),
                           Get(AfterSpy(j), spy[j].appId))
           /\ \A j \in 1..Len(apps) :
                 (Has(AfterApps(j - 1), apps[j].appId)
                    /\ Get(AfterApps(j - 1), apps[j].appId).priority < 3) =>
                 Preserved(Get(AfterApps(j - 1), apps[j].appId),
                           Get(AfterApps(j), apps[j].appId))
           /\ pc = "sampled" => allUniqueGames = AfterApps(Len(apps))

C10_Witness ==
    /\ pc = "sampled"
    /\ \E k \in 1..Len(allUniqueGames) :
          /\ allUniqueGames[k].priority = 1
          /\ allUniqueGames[k].currentPlayers = 5
          /\ allUniqueGames[k].name = "Game 1"
          /\ allUniqueGames[k].owners = 7
          /\ allUniqueGames[k].appId \in IdsOf(adapterOut["spy"])
          /\ allUniqueGames[k].appId \in IdsOf(adapterOut["apps"])

(***************************************************************************)
(* Properties of the merge: backfill                                       *)
(***************************************************************************)
\* lines 291, 296, 307
SourcePriority(src) == IF src = "charts" THEN 1 ELSE IF src = "spy" THEN 2 ELSE 3

LowerEntries(r) ==
    UNION { {adapterOut[src][j] : j \in {i \in 1..Len(adapterOut[src]) :
                                          adapterOut[src][i].appId = r.appId}}
            : src \in {x \in Sources : SourcePriority(x) > r.priority} }

\* C11: a field (name, static metric, peak hint) that the higher-priority
\* source left empty carries, in the merged record, the value of a
\* lower-priority source (priority 2 or 3) that has it populated.
C11_BackfillFromLowerPriority ==
    pc = "sampled" =>
        \A k \in 1..Len(allUniqueGames) :
            LET r == allUniqueGames[k]
            IN \A e \in LowerEntries(r) :
                  /\ e.name # NoName =>
                        (r.name # NoName /\
                         (r.priority = 1 => \E x \in LowerEntries(r) : r.name = x.name))
                  /\ Truthy(e.currentPlayers) => Truthy(r.currentPlayers)
                  /\ Truthy(e.peak24h) => Truthy(r.peak24h)

(***************************************************************************)
(* Properties of the sampling                                              *)
(***************************************************************************)
Kept == Priority1And2(allUniqueGames)
Pool == Priority3Games(allUniqueGames)
Oversized == pc = "sampled" /\ Len(allUniqueGames) > TARGET_GAMES
SampledPart == SubSeq(gamesToProcess, Len(Kept) + 1, Len(gamesToProcess))
Elements(s) == {s[k] : k \in 1..Len(s)}

\* C12: a merged set of at most TARGET_GAMES candidates is handed over
\* unchanged, in merge order.
C12_SmallSetUnchanged ==
    (pc = "sampled" /\ Len(allUniqueGames) <= TARGET_GAMES) =>
        gamesToProcess = allUniqueGames

C12_Witness ==
    /\ pc = "sampled"
    /\ Len(allUniqueGames) = TARGET_GAMES
    /\ Len(Pool) = TARGET_GAMES
    /\ gamesToProcess = allUniqueGames

\* C13: every merged candidate of priority 1 or 2 is in gamesToProcess.
C13_KeptNeverRemoved ==
    pc = "sampled" => Elements(Kept) \subseteq Elements(gamesToProcess)

C13_Witness ==
    /\ Oversized
    /\ Len(Kept) > TARGET_GAMES
    /\ Len(Pool) >= 1
    /\ Elements(Kept) \subseteq Elements(gamesToProcess)

\* C14: when the merged set exceeds TARGET_GAMES and the kept candidates
\* alone reach it, gamesToProcess is exactly the kept candidates, with no
\* priority-3 candidate.
C14_KeptOnlyWhenTargetReached ==
    (Oversized /\ Len(Kept) >= TARGET_GAMES) => gamesToProcess = Kept

\* C15 as stated: when the merged set exceeds TARGET_GAMES and the pool has at
\* least remainingSlots = TARGET_GAMES - |kept| candidates, gamesToProcess has
\* min(TARGET_GAMES, |kept| + |pool|) candidates, its sampled part is a subset
\* of the pool of exactly remainingSlots candidates, and no id is repeated.
C15_ExactSizeAsStated ==
    (Oversized /\ Len(Pool) >= TARGET_GAMES - Len(Kept)) =>
        /\ Len(gamesToProcess) = Min(TARGET_GAMES, Len(Kept) + Len(Pool))
        /\ Len(SampledPart) = TARGET_GAMES - Len(Kept)
        /\ Elements(SampledPart) \subseteq Elements(Pool)
        /\ \A j \in 1..Len(gamesToProcess) : \A k \in 1..Len(gamesToProcess) :
              j # k => gamesToProcess[j].appId # gamesToProcess[k].appId

\* C15, amended: the same, for 0 <= remainingSlots <= |pool|, i.e. when the
\* kept candidates do not exceed TARGET_GAMES.
C15_ExactSize ==
    (Oversized /\ TARGET_GAMES - Len(Kept) >= 0
               /\ Len(Pool) >= TARGET_GAMES - Len(Kept)) =>
        /\ Len(gamesToProcess) = Min(TARGET_GAMES, Len(Kept) + Len(Pool))
        /\ SubSeq(gamesToProcess, 1, Len(Kept)) = Kept
        /\ Len(SampledPart) = TARGET_GAMES - Len(Kept)
        /\ Elements(SampledPart) \subseteq Elements(Pool)
        /\ \A j \in 1..Len(gamesToProcess) : \A k \in 1..Len(gamesToProcess) :
              j # k => gamesToProcess[j].appId # gamesToProcess[k].appId

C15_Witness ==
    /\ Oversized
    /\ Len(Kept) = 1
    /\ Len(Pool) = 3
    /\ Len(gamesToProcess) = TARGET_GAMES
    /\ gamesToProcess[2] = Pool[3]

(***************************************************************************)
(* Properties of phase 5                                                   *)
(***************************************************************************)
\* the candidate and the fetch outcome of an id, the metric the aggregator
\* is to give it, and the final record of an id
CandidateOf(id) == gamesToProcess[CHOOSE k \in 1..N : gamesToProcess[k].appId = id]
FetchedOf(id) == results[CHOOSE j \in OutcomesOf(id) : TRUE].players
StaticOrZero(g) == IF g.currentPlayers > 0 THEN g.currentPlayers ELSE 0
ExpectedMetric(id) ==
    IF FetchedOf(id) >= StaticOrZero(CandidateOf(id))
    THEN FetchedOf(id) ELSE StaticOrZero(CandidateOf(id))
FinalOf(id) == {k \in 1..Len(gamesWithPlayers) : gamesWithPlayers[k].appId = id}
Survivors == {k \in 1..N : ExpectedMetric(appIds[k]) > 0}

\* C16: every processed candidate gets currentPlayers = max(fetched count,
\* static count or 0) and is left out exactly when that value is 0; every
\* final record has currentPlayers > 0.
C16_MetricIsMaxAndZeroDropped ==
    RunEnded =>
        /\ \A k \in 1..N :
              LET id == appIds[k]
              IN /\ Cardinality(OutcomesOf(id)) = 1
                 /\ IF ExpectedMetric(id) = 0 THEN FinalOf(id) = {}
                    ELSE /\ Cardinality(FinalOf(id)) = 1
                         /\ \A f \in FinalOf(id) :
                               gamesWithPlayers[f].currentPlayers = ExpectedMetric(id)
        /\ \A f \in 1..Len(gamesWithPlayers) :
              /\ gamesWithPlayers[f].currentPlayers > 0
              /\ gamesWithPlayers[f].appId \in {appIds[k] : k \in 1..N}

C16_Witness ==
    /\ pc = "returned"
    /\ N = 3
    /\ FetchedOf(appIds[1]) = 0 /\ gamesToProcess[1].currentPlayers = 4
    /\ FetchedOf(appIds[2]) = 7
    /\ ExpectedMetric(appIds[3]) = 0
    /\ \E f \in FinalOf(appIds[1]) : gamesWithPlayers[f].currentPlayers = 4
    /\ FinalOf(appIds[3]) = {}

\* C17: with peak = the candidate's peak24h if non-zero, else the record's
\* currentPlayers, a final record is 'stable' when peak = 0, peak =
\* currentPlayers or currentPlayers / peak > 0.9, and 'down' otherwise; no
\* other value occurs.
C17_TrendClassification ==
    RunEnded =>
        \A f \in 1..Len(gamesWithPlayers) :
            LET rec == gamesWithPlayers[f]
                g == CandidateOf(rec.appId)
                cur == rec.currentPlayers
                peak == IF g.peak24h # Undef /\ g.peak24h # 0 THEN g.peak24h ELSE cur
            IN /\ rec.peak24h = peak
               /\ rec.trending \in {"stable", "down"}
               /\ rec.trending = "stable" <=>
                     (peak = 0 \/ peak = cur \/ 10 * cur > 9 * peak)

C17_Witness ==
    /\ pc = "returned"
    /\ Len(gamesWithPlayers) = 3
    /\ \E f \in 1..3 : /\ gamesWithPlayers[f].currentPlayers = 4
                       /\ gamesWithPlayers[f].peak24h = 9
                       /\ gamesWithPlayers[f].trending = "down"
    /\ \E f \in 1..3 : /\ gamesWithPlayers[f].currentPlayers = 19
                       /\ gamesWithPlayers[f].peak24h = 20
                       /\ gamesWithPlayers[f].trending = "stable"
    /\ \E f \in 1..3 : /\ gamesWithPlayers[f].currentPlayers = 4
                       /\ gamesWithPlayers[f].peak24h = 5
                       /\ gamesWithPlayers[f].trending = "down"

\* C18: in a returned dataset of n records the ranks are exactly 1..n, each
\* used once, and a record of smaller rank never has fewer currentPlayers.
C18_RanksDenseAndOrdered ==
    pc = "returned" =>
        LET n == Len(gamesWithPlayers)
        IN /\ {gamesWithPlayers[k].rank : k \in 1..n} = 1..n
           /\ \A j \in 1..n : \A k \in 1..n :
                 /\ j # k => gamesWithPlayers[j].rank # gamesWithPlayers[k].rank
                 /\ gamesWithPlayers[j].rank < gamesWithPlayers[k].rank =>
                       gamesWithPlayers[j].currentPlayers >=
                           gamesWithPlayers[k].currentPlayers
           /\ result.totalGames = n

C18_Witness ==
    /\ pc = "returned"
    /\ Len(gamesWithPlayers) = 3
    /\ gamesToProcess[1].currentPlayers = 4
    /\ gamesWithPlayers[1].appId = appIds[2] /\ gamesWithPlayers[1].currentPlayers = 7
    /\ gamesWithPlayers[2].appId = appIds[3] /\ gamesWithPlayers[2].currentPlayers = 7
    /\ gamesWithPlayers[3].appId = appIds[1] /\ gamesWithPlayers[3].currentPlayers = 4

\* C20: the run fails with the error of the validation exactly when fewer than
\* MIN_GAMES_REQUIRED records survive; the error carries the number of
\* survivors and MIN_GAMES_REQUIRED; the outcome is a function of the survivors.
C20_BelowMinimumFails ==
    /\ RunEnded =>
          /\ (pc = "failed") <=> (Cardinality(Survivors) < MIN_GAMES_REQUIRED)
          /\ error.raised <=> (pc = "failed")
          /\ error.raised => /\ error.found = Cardinality(Survivors)
                             /\ error.required = MIN_GAMES_REQUIRED
    /\ ~RunEnded => ~error.raised

C20_Witness ==
    /\ pc = "failed"
    /\ N = 3
    /\ error.raised
    /\ error.found = MIN_GAMES_REQUIRED - 1
    /\ error.required = MIN_GAMES_REQUIRED

C20_WitnessReturned ==
    /\ pc = "returned"
    /\ Cardinality(Survivors) = MIN_GAMES_REQUIRED
    /\ ~error.raised

(***************************************************************************)
(* Properties of a whole run                                               *)
(***************************************************************************)
MergePosition(id) == IndexOf(allUniqueGames, id)

\* C19: of two final records with equal currentPlayers, the one whose
\* candidate was inserted earlier into the merged set has the smaller rank,
\* also in runs where the priority-3 pool was down-sampled.
C19_TiesInMergeOrder ==
    pc = "returned" =>
        \A j \in 1..Len(gamesWithPlayers) : \A k \in 1..Len(gamesWithPlayers) :
            LET a == gamesWithPlayers[j]
                b == gamesWithPlayers[k]
            IN (/\ a.currentPlayers = b.currentPlayers
                /\ MergePosition(a.appId) < MergePosition(b.appId)) => a.rank < b.rank

(***************************************************************************)
(* Properties of main                                                      *)
(***************************************************************************)
\* C21: when the validation fails saveData is not invoked, neither output
\* document is written and the process ends with a non-zero status; the
\* process ends with status zero exactly when both documents were written.
C21_NoOutputOnValidationFailure ==
    /\ error.raised =>
          /\ outputFiles = {}
          /\ mainPc \in {"awaitData", "exited"}
          /\ exitStatus \in {NotExited, 1}
          /\ mainPc = "exited" => exitStatus = 1
    /\ exitStatus = 0 => (pc = "returned" /\ outputFiles = OutputDocuments)
    /\ (mainPc = "exited" /\ outputFiles = OutputDocuments) => exitStatus = 0
    /\ mainPc = "exited" <=> exitStatus # NotExited

C21_Witness ==
    /\ pc = "failed"
    /\ error.raised /\ error.found = 1
    /\ Len(snapshots) >= 1
    /\ mainPc = "exited"
    /\ exitStatus = 1
    /\ outputFiles = {}

C21_WitnessSuccess ==
    /\ pc = "returned"
    /\ mainPc = "exited"
    /\ exitStatus = 0
    /\ outputFiles = OutputDocuments

(***************************************************************************)
(* Properties of the source adapters                                       *)
(***************************************************************************)
Raw(src) ==
    IF src = "charts" THEN <<chartsRaw>> ELSE IF src = "apps" THEN <<appsRaw>> ELSE spyRaw
FailsEntirely(src) == \A k \in 1..Len(Raw(src)) : ~Raw(src)[k].ok \/ Raw(src)[k].broken

\* C22: no adapter lets an exception out, whatever its requests answer; a
\* source whose requests all fail or answer a malformed body contributes the
\* empty list, and the lists of the other sources are merged.
C22_AdaptersNeverThrow ==
    /\ \A src \in Sources :
          /\ adapterOut[src] # Rejected
          /\ (Completed(src) /\ FailsEntirely(src)) => adapterOut[src] = <<>>
    /\ pc = "phase1" => ~error.raised
    /\ pc \notin {"phase1"} =>
          /\ AllReturned
          /\ IdsOf(allUniqueGames) = UNION {IdsOf(adapterOut[src]) : src \in Sources}

C22_Witness ==
    /\ pc = "returned"
    /\ chartsRaw.broken
    /\ spyRaw[2].broken
    /\ ~appsRaw.broken
    /\ adapterOut["charts"] = <<>>
    /\ adapterOut["spy"] = <<>>
    /\ IdsOf(allUniqueGames) = {4, 6}

C22_WitnessMerged ==
    /\ pc = "sampled"
    /\ appsRaw.broken /\ spyRaw[2].broken
    /\ IdsOf(allUniqueGames) = {1}

(***************************************************************************)
(* Properties of the checkpoints                                           *)
(***************************************************************************)
\* some multiple of the checkpoint interval lies in (before, after]
Crosses(before, after) ==
    \E m \in 1..after : m % checkpointEvery = 0 /\ before < m /\ m <= after

ExpectedResults == [k \in 1..N |-> Outcome(k)]
ExpectedDataset == Joined(ExpectedResults, gamesToProcess)
ChecksDue == Cardinality({w \in 1..N : w % checkpointEvery = 0 /\
                                       (w % windowSize = 0 \/ w = N)})

\* C24: a failing checkpoint write never fails the run and never changes its
\* result: the list fetchPlayerCountsParallel returns and the final dataset
\* are those the lookups determine, whether the writes succeeded or failed.
C24_CheckpointFailureHarmless ==
    /\ FetchReturned => results = ExpectedResults
    /\ pc = "returned" => gamesWithPlayers = Ranked(SortDesc(ExpectedDataset))
    /\ error.raised => (pc = "failed" /\ Len(ExpectedDataset) < MIN_GAMES_REQUIRED)
    /\ pc = "failed" => gamesWithPlayers = ExpectedDataset
    /\ Len(snapshots) <= ChecksDue

C24_Witness ==
    /\ pc = "returned"
    /\ N = 3
    /\ ChecksDue = 1
    /\ snapshots = <<>>
    /\ Len(gamesWithPlayers) = 3

C24_WitnessWritten ==
    /\ pc = "returned"
    /\ N = 3
    /\ Len(snapshots) = 1
    /\ Len(gamesWithPlayers) = 3

(***************************************************************************)
(* Properties of the order of the stages                                   *)
(***************************************************************************)
AllWindowsCompleted ==
    /\ Len(lookups) = N
    /\ \A k \in 1..N : Started(k) /\ Settled(k)
    /\ Len(results) = N
    /\ batchI >= N

\* C25: the validation error is raised only after every window has
\* completed, with no lookup unissued or outstanding, and a run that passes
\* the validation has completed every window.
C25_ValidationAfterAllWindows ==
    /\ (error.raised \/ pc = "failed") => AllWindowsCompleted
    /\ pc = "returned" => AllWindowsCompleted
    /\ ~AllWindowsCompleted => (~error.raised /\ exitStatus = NotExited)

C25_Witness ==
    /\ pc = "failed"
    /\ error.raised
    /\ N = 3
    /\ batchI = 4
    /\ AllWindowsCompleted
    /\ Exhausted(3)

\* C26: the result accumulator and the failure counter change only at a
\* window boundary, when every lookup of the window has settled.
C26_SharedStateOnlyAtBoundaries ==
    [][ (results' # results \/ failedRequests' # failedRequests) =>
            (pc = "awaitBatch" /\ BatchSettled(batchI)) ]_vars

\* the part of C26 on the accumulator alone
C26_AccumulatorOnlyAtBoundaries ==
    [][ results' # results => (pc = "awaitBatch" /\ BatchSettled(batchI)) ]_vars

(***************************************************************************)
(* Properties of the metadata                                              *)
(***************************************************************************)
RECURSIVE TotalOf(_)
TotalOf(recs) ==
    IF recs = {} THEN 0
    ELSE LET r == CHOOSE x \in recs : TRUE
         IN r.currentPlayers + TotalOf(recs \ {r})

\* C29: in a returned dataset totalGames is the number of records,
\* totalPlayers the sum of their currentPlayers, and totalProcessed the
\* number of identifiers handed to fetchPlayerCountsParallel.
C29_MetadataMatchesRecords ==
    pc = "returned" =>
        /\ result.totalGames = Cardinality(Elements(gamesWithPlayers))
        /\ result.totalGames = Len(gamesWithPlayers)
        /\ result.totalPlayers = TotalOf(Elements(gamesWithPlayers))
        /\ result.totalProcessed = Len(appIds)

C29_Witness ==
    /\ pc = "returned"
    /\ N = 3
    /\ Len(gamesWithPlayers) = 2
    /\ result.totalGames = 2
    /\ result.totalPlayers = 11
    /\ result.totalProcessed = 3

(***************************************************************************)
(* Properties of SteamChartsSync                                           *)
(***************************************************************************)
NoRepeatedAppId(list) ==
    \A i, j \in 1..Len(list) : list[i].appId = list[j].appId => i = j

\* C30: fetchGamesFromDatabase returns at most DATABASE_LIMIT games and never
\* the same appId twice, whatever the two queries answered, and the empty
\* list when a query threw.
C30_AtMostLimitAndDistinct ==
    syncPc # "start" =>
        /\ Len(dbGames) <= DATABASE_LIMIT
        /\ NoRepeatedAppId(dbGames)
        /\ (popularQuery.thrown => dbGames = <<>>)
        /\ ((Len(popularQuery.data) < DATABASE_LIMIT /\ popularQuery.client
                /\ additionalQuery.thrown) => dbGames = <<>>)

\* The part of C30 that does not depend on the rows of one answer being
\* distinct: the size, the exceptions, and no appId of the popular answer
\* taken again from the additional answer.
C30_LimitExceptionsAndOverlap ==
    syncPc # "start" =>
        /\ Len(dbGames) <= DATABASE_LIMIT
        /\ (popularQuery.thrown => dbGames = <<>>)
        /\ ((Len(popularQuery.data) < DATABASE_LIMIT /\ popularQuery.client
                /\ additionalQuery.thrown) => dbGames = <<>>)
        /\ \A k \in 1..Len(dbGames) :
              k > Len(popularQuery.data) => ~Has(popularQuery.data, dbGames[k].appId)

LookupBegun(k) == calls[k].st # "idle"

\* The lookup stored its result: lines 91-102 ran (the counts answered are
\* positive, the values of the other returns are zero).
Stored(k) == calls[k].st = "answered" /\ calls[k].ret.currentPlayers > 0

\* C27: once a lookup of an identifier has stored a result, every later
\* lookup of the identifier returns that result without a remote call.
C27_LaterLookupReturnsStoredResult ==
    \A j, k \in 1..Len(calls) :
        (Stored(j) /\ dbGames[k].appId = dbGames[j].appId /\ calls[k].st = "hit")
        => calls[k].ret = calls[j].ret

\* The part of C27 about the call and the counters: a lookup of an
\* identifier that has a stored result returns what the cache holds without
\* a remote call; apiCalls and errors stay as they were and cachedGames
\* grows by one for each such lookup.
C27_CachedLookupMakesNoCall ==
    [][ LET begun == {k \in 1..Len(calls) : k <= Len(calls') /\ ~LookupBegun(k) /\ LookupBegun(k)'}
            cached == {k \in begun : Has(playerCache, dbGames[k].appId)}
        IN /\ \A k \in cached :
                 /\ calls'[k].st = "hit"
                 /\ calls'[k].ret = Get(playerCache, dbGames[k].appId)
           /\ cached # {} =>
                 /\ stats'.apiCalls = stats.apiCalls
                 /\ stats'.errors = stats.errors
                 /\ stats'.cachedGames = stats.cachedGames + Cardinality(cached)
                 /\ playerCache' = playerCache ]_vars

C27_Witness ==
    /\ Len(calls) = 3
    /\ calls[1].st = "answered"
    /\ calls[3].st = "hit"
    /\ dbGames[3].appId = dbGames[1].appId
    /\ calls[3].ret = calls[1].ret
    /\ calls[3].ret.currentPlayers = 7
    /\ stats = [apiCalls |-> 2, errors |-> 0, cachedGames |-> 1]

\* C28: the value stored in the session cache for an identifier is never
\* replaced by a different value.
C28_CacheWritesIdempotent ==
    [][ \A k \in 1..Len(playerCache) :
           /\ Has(playerCache', playerCache[k].appId)
           /\ Get(playerCache', playerCache[k].appId) = playerCache[k] ]_vars

\* Two lookups of one identifier in one chunk returned different values, and
\* the cache holds the later one.
C28_ReadersDisagree ==
    \E i, j \in 1..Len(calls) :
        /\ i # j
        /\ dbGames[i].appId = dbGames[j].appId
        /\ i \in Chunk(chunkI) /\ j \in Chunk(chunkI)
        /\ calls[i].st = "answered" /\ calls[j].st = "answered"
        /\ calls[i].ret.currentPlayers = 7
        /\ calls[j].ret.currentPlayers = 8
        /\ Get(playerCache, dbGames[i].appId) = calls[j].ret

LookupDone(k) == calls[k].st \in {"hit", "answered", "failed"}
CallsIn(st) == {k \in 1..Len(calls) : calls[k].st = st}
ChunkOf(k) == (k - 1) \div maxConcurrent

\* C31: at most maxConcurrent lookups are outstanding, no lookup of a chunk
\* starts before every lookup of the chunks before it has settled, and the
\* rate-limit delay follows every chunk but the last.
C31_ChunksAreBarriers ==
    /\ [](/\ Cardinality(CallsIn("awaiting")) <= maxConcurrent
          /\ \A j, k \in 1..Len(calls) :
                (LookupBegun(k) /\ ChunkOf(j) < ChunkOf(k)) => LookupDone(j)
          /\ syncPc = "delay" =>
                /\ \A k \in Chunk(chunkI) : LookupDone(k)
                /\ chunkI + maxConcurrent < SyncN)
    /\ [][ /\ (syncPc = "awaitChunk" /\ syncPc' # "awaitChunk") =>
                 IF chunkI + maxConcurrent < SyncN
                 THEN syncPc' = "delay"
                 ELSE syncPc' = "returned"
           /\ (syncPc' = "chunk" /\ syncPc # "chunk") => syncPc \in {"start", "delay"}
           /\ (syncPc' = "chunk" /\ syncPc = "delay") =>
                 chunkI' = chunkI + maxConcurrent ]_vars

\* The second chunk is running after the delay that followed the first.
C31_Witness ==
    /\ SyncN = 3
    /\ syncPc = "awaitChunk"
    /\ chunkI = maxConcurrent
    /\ LookupDone(1) /\ LookupDone(2)
    /\ calls[3].st = "awaiting"

C31_WitnessDelay ==
    /\ SyncN = 3
    /\ syncPc = "delay"
    /\ chunkI = 0

\* C37: every completed call of fetchSingleGamePlayerCount has incremented
\* exactly one of cachedGames, apiCalls and errors; a failed lookup returns
\* zero players and stores nothing in the cache.
C37_OneCounterPerCall ==
    /\ stats.cachedGames = Cardinality(CallsIn("hit"))
    /\ stats.apiCalls = Cardinality(CallsIn("answered"))
    /\ stats.errors = Cardinality(CallsIn("failed"))
    /\ stats.cachedGames + stats.apiCalls + stats.errors
          = Cardinality({k \in 1..Len(calls) : LookupDone(k)})
    /\ \A k \in CallsIn("failed") : calls[k].ret = ZeroStat(dbGames[k].appId)
    /\ \A c \in 1..Len(playerCache) :
          \E k \in CallsIn("answered") : Stored(k) /\ calls[k].ret = playerCache[c]
    /\ syncPc = "returned" =>
          /\ \A k \in 1..Len(calls) : LookupDone(k)
          /\ \A k \in 1..Len(calls) : Has(statsMap, dbGames[k].appId)

C37_Witness ==
    /\ syncPc = "returned"
    /\ Len(calls) = 3
    /\ calls[1].st = "answered"
    /\ calls[2].st = "failed"
    /\ calls[3].st = "hit"
    /\ stats = [apiCalls |-> 1, errors |-> 1, cachedGames |-> 1]
    /\ Len(playerCache) = 1

(***************************************************************************)
(* Properties of the order of the results                                  *)
(***************************************************************************)
\* C38: the list fetchPlayerCountsParallel builds and returns has the
\* outcome of the k-th identifier of the input at position k, in whatever
\* order the lookups settled.
C38_ResultsInInputOrder ==
    /\ Len(results) <= N
    /\ \A k \in 1..Len(results) :
          /\ results[k].appId = gamesToProcess[k].appId
          /\ results[k] = Outcome(k)
    /\ FetchReturned => Len(results) = N

\* The first window is in the list while the third lookup has settled
\* before the second.
C38_Witness ==
    /\ N = 3
    /\ windowSize = 1
    /\ pc = "awaitBatch"
    /\ results = <<Outcome(1)>>
    /\ lookups[2].st # "settled"
    /\ lookups[3].st = "settled"

C38_WitnessReturned ==
    /\ N = 3
    /\ windowSize = 2
    /\ pc = "returned"
    /\ lookups[1].calls = 3
    /\ lookups[2].calls = 1
    /\ [k \in 1..3 |-> results[k].appId] = <<11, 12, 13>>

(***************************************************************************)
(* Properties of SteamSpyFetcher                                           *)
(***************************************************************************)
RECURSIVE TrailingEmpties(_)
TrailingEmpties(f) ==
    IF f = <<>> \/ ~f[Len(f)].empty THEN 0
    ELSE 1 + TrailingEmpties(SubSeq(f, 1, Len(f) - 1))

PageLoopRunning == spyLoop.pc = "pages"

C33_WitnessAllPages ==
    /\ ~PageLoopRunning
    /\ Len(spyLoop.fetched) = MAX_PAGES
    /\ TrailingEmpties(spyLoop.fetched) = 0

SpyReturned == spyLoop.pc \in {"returned", "exited"}

\* C34: in every result of fetchAllGames totalPlayers is the sum of
\* currentPlayers over the records of games, and the activeGames counter
\* equals totalGames.
C34_TotalsMatchRecords ==
    SpyReturned =>
        /\ spyOutput.totalPlayers = SumPlayers(spyOutput.games)
        /\ spyFetcher.activeGames = spyOutput.totalGames

\* The part of C34 that holds: totalGames is the number of records.
C34_TotalGamesIsRecordCount ==
    SpyReturned =>
        /\ spyOutput.totalGames = Len(spyOutput.games)
        /\ NoRepeatedAppId(spyOutput.games)

\* C35: the tag phase is entered only with fewer than SPY_TARGET_GAMES
\* active games counted by the page phase; a turn of it adds only records
\* of games with active players under appIds that were not stored, and
\* leaves the records that were stored as they were.
C35_TagPhaseOnlyAdds ==
    [][ /\ (spyLoop.pc = "pages" /\ spyLoop'.pc = "tags") =>
               spyFetcher'.activeGames < SPY_TARGET_GAMES
        /\ (spyLoop.pc = "pages" /\ spyLoop'.pc = "finish") =>
               spyFetcher'.activeGames >= SPY_TARGET_GAMES
        /\ spyLoop'.pc = "tags" => spyLoop.pc \in {"pages", "tags"}
        /\ spyLoop.pc = "tags" =>
              /\ \A k \in 1..Len(spyFetcher.games) :
                    /\ Has(spyFetcher'.games, spyFetcher.games[k].appId)
                    /\ Get(spyFetcher'.games, spyFetcher.games[k].appId)
                          = spyFetcher.games[k]
              /\ \A k \in 1..Len(spyFetcher'.games) :
                    ~Has(spyFetcher.games, spyFetcher'.games[k].appId) =>
                        /\ spyFetcher'.games[k].source = "steamspy-tag"
                        /\ spyFetcher'.games[k].currentPlayers > 0
              /\ spyFetcher'.totalGames = spyFetcher.totalGames ]_vars

\* Game 1 came from a page with 5 players and game 5 from a tag; the tag
\* answer that brought game 5 also had game 1 with 6 players.
C35_Witness ==
    /\ spyLoop.pc = "finish"
    /\ spyLoop.tag = TAG_COUNT
    /\ Has(spyFetcher.games, 1)
    /\ Get(spyFetcher.games, 1).source = "steamspy"
    /\ Get(spyFetcher.games, 1).currentPlayers = 5
    /\ Has(spyFetcher.games, 5)
    /\ Get(spyFetcher.games, 5).source = "steamspy-tag"
    /\ Get(spyFetcher.games, 5).currentPlayers = 3

\* C36: topGames of the summary has the records of rank 1..TOP_GAMES (all
\* records if there are fewer), in rank order.
C36_SummaryHasTopRanks ==
    (spyLoop.pc = "exited" /\ spyOutput.files = 3) =>
        /\ Len(spyOutput.topGames) = Min(TOP_GAMES, spyOutput.totalGames)
        /\ \A k \in 1..Len(spyOutput.topGames) : spyOutput.topGames[k].rank = k

\* What does hold of the summary: it has the first TOP_GAMES records in
\* ascending order of appId.
C36_SummaryHasLowestAppIds ==
    (spyLoop.pc = "exited" /\ spyOutput.files = 3) =>
        /\ Len(spyOutput.topGames) = Min(TOP_GAMES, spyOutput.totalGames)
        /\ \A k \in 1..Len(spyOutput.topGames) :
              /\ spyOutput.topGames[k].appId = spyOutput.games[k].appId
              /\ \A j \in (k + 1)..Len(spyOutput.games) :
                    spyOutput.games[j].appId > spyOutput.topGames[k].appId

(***************************************************************************)
(* Properties of processGamesInBatches                                     *)
(***************************************************************************)
TaskOf(k) == chartsBatches.tasks[k]
LookupOutstanding(k) == TaskOf(k).st \in {"fetching", "backoff"}
TaskBatch(k) == (k - 1) \div CHARTS_MAX_CONCURRENT

\* C32: at most CHARTS_MAX_CONCURRENT lookups are outstanding, and a task
\* of a batch has started only when every task of the batches before it has
\* finished its lookup, its delay and its record update.
C32_BatchesAreBarriers ==
    /\ Cardinality({k \in 1..ChartsN : LookupOutstanding(k)}) <= CHARTS_MAX_CONCURRENT
    /\ Cardinality({k \in 1..ChartsN : TaskOf(k).st \notin {"idle", "done"}})
          <= CHARTS_MAX_CONCURRENT
    /\ \A j, k \in 1..ChartsN :
          (TaskOf(k).st # "idle" /\ TaskBatch(j) < TaskBatch(k)) =>
              /\ TaskOf(j).st = "done"
              /\ (TaskOf(j).currentPlayers > 0 \/ chartsBatches.gamesList[j].currentPlayers > 0)
                    => Has(chartsFetcher.games, chartsBatches.gamesList[j].appId)
    /\ chartsBatches.pc = "returned" => \A k \in 1..ChartsN : TaskOf(k).st = "done"

\* The second batch is running; the first one finished with one lookup
\* retried and both records stored.
C32_Witness ==
    /\ ChartsN = 3
    /\ chartsBatches.pc = "awaitBatch"
    /\ chartsBatches.batchIndex = 1
    /\ TaskOf(1).st = "done" /\ TaskOf(2).st = "done"
    /\ TaskOf(1).i = 1
    /\ TaskOf(3).st = "fetching"
    /\ Len(chartsFetcher.games) = 2

====
